---- MODULE Spec2Model ----
(***************************************************************************)
(* A model of the mustache template engine of                              *)
(* lib/facil/fiobj/mustache_parser.h: the loader (mustache_load), which    *)
(* compiles template bytes into an instruction vector plus a data blob,    *)
(* and the builder (mustache_build), the virtual machine that walks the    *)
(* instructions and calls the host's callbacks.                            *)
(*                                                                         *)
(* Pointers into the data blob are byte offsets (0 based, as in C); the    *)
(* blob itself is a sequence of byte values, so byte p is data[p + 1].     *)
(***************************************************************************)
EXTENDS Integers, Sequences, FiniteSets, TLC

(***************************************************************************)
(* Bounds of the model.                                                    *)
(***************************************************************************)
\* the longest root template enumerated token by token
MaxTokens == 3
\* the number of callbacks whose outcome the host chooses freely
MaxChoice == 3
\* no callback is modelled once the trace holds this many calls
MaxTrace == 24

(***************************************************************************)
(* Program constants.                                                      *)
(***************************************************************************)
MUSTACHE_NESTING_LIMIT == 96
MUSTACHE_DELIMITER_LENGTH_LIMIT == 11
\* 2^16, the width of name_len, offset and the stack indexes (uint16_t)
UINT16_MOD == 65536
INT32_MAX == 2147483647
\* mustache__data_segment_length(0): the fixed part of a sub-header
SEGMENT_FIXED == 13
FILE_NAME_LIMIT == 8192

(***************************************************************************)
(* Bytes.                                                                  *)
(***************************************************************************)
Asc(c) ==
    CASE c = "{" -> 123 [] c = "}" -> 125 [] c = "#" -> 35 [] c = "^" -> 94
      [] c = "/" -> 47  [] c = ">" -> 62  [] c = "!" -> 33 [] c = "=" -> 61
      [] c = "&" -> 38  [] c = ":" -> 58  [] c = "<" -> 60 [] c = " " -> 32
      [] c = "." -> 46  [] c = "%" -> 37  [] c = "\\" -> 92
      [] c = "a" -> 97  [] c = "b" -> 98  [] c = "c" -> 99 [] c = "d" -> 100
      [] c = "e" -> 101 [] c = "h" -> 104 [] c = "m" -> 109 [] c = "p" -> 112
      [] c = "q" -> 113 [] c = "r" -> 114 [] c = "s" -> 115 [] c = "t" -> 116
      [] c = "u" -> 117 [] c = "x" -> 120 [] c = "y" -> 121 [] c = "z" -> 122
      [] c = "A" -> 65  [] c = "B" -> 66  [] c = "j" -> 106 [] c = "k" -> 107
      [] c = "n" -> 110

Bytes(cs) == [k \in 1..Len(cs) |-> Asc(cs[k])]

\* isspace() in the C locale
isspace(b) == b \in {32, 9, 10, 11, 12, 13}

\* *(data + p); data[data_len] is the terminating NUL the loader writes
ByteAt(data, p) == IF p >= 0 /\ p < Len(data) THEN data[p + 1] ELSE 0

\* the bytes data[p .. p + n)
Slice(data, p, n) == SubSeq(data, p + 1, p + n)

Min(a, b) == IF a <= b THEN a ELSE b

(***************************************************************************)
(* A uint32_t or size_t value is kept as the two's complement integer with *)
(* the same bits (4294967294 is -2), which is what the conversions from    *)
(* int32_t and ptrdiff_t leave in it; the comparisons are the unsigned     *)
(* ones.                                                                   *)
(***************************************************************************)
\* a < b for unsigned a and b
ULess(a, b) ==
    IF (a < 0) = (b < 0) THEN a < b ELSE b < 0

\* a >= b for unsigned a and b
UAtLeast(a, b) == ~ULess(a, b)

\* memcmp(data + p, pat, Len(pat)) == 0, with every byte read inside the string
MatchAt(data, p, pat) ==
    /\ p >= 0
    /\ p + Len(pat) <= Len(data)
    /\ \A k \in 1..Len(pat) : data[p + k] = pat[k]

\* the offset of the NUL that ends the C string starting at from
StrEnd(data, from) ==
    IF \E q \in from..(Len(data) - 1) : data[q + 1] = 0
    THEN CHOOSE q \in from..(Len(data) - 1) :
            /\ data[q + 1] = 0
            /\ \A r \in from..(q - 1) : data[r + 1] # 0
    ELSE Len(data)

\* strstr(data + from, pat): the offset of the first match, -1 for NULL
strstr(data, from, pat) ==
    LET lim == StrEnd(data, from)
        hit(p) == p + Len(pat) <= lim /\ MatchAt(data, p, pat)
    IN  IF \E p \in from..lim : hit(p)
        THEN CHOOSE p \in from..lim :
                hit(p) /\ \A r \in from..(p - 1) : ~hit(r)
        ELSE -1

\* MUSTACHE_IGNORE_WHITESPACE(str, 1)
RECURSIVE IgnoreWhitespaceFwd(_, _)
IgnoreWhitespaceFwd(data, p) ==
    IF isspace(ByteAt(data, p)) THEN IgnoreWhitespaceFwd(data, p + 1) ELSE p

\* MUSTACHE_IGNORE_WHITESPACE(str, -1)
RECURSIVE IgnoreWhitespaceBack(_, _)
IgnoreWhitespaceBack(data, p) ==
    IF p >= 0 /\ isspace(ByteAt(data, p))
    THEN IgnoreWhitespaceBack(data, p - 1)
    ELSE p

(***************************************************************************)
(* The sub-header that precedes every template in the data blob.           *)
(***************************************************************************)
Shr(v, n) == v \div (2 ^ n)

\* a | b for the operands the decoder meets
RECURSIVE BitOr(_, _)
BitOr(a, b) ==
    IF a = 0 THEN b
    ELSE IF b = 0 THEN a
    ELSE (IF a % 2 = 1 \/ b % 2 = 1 THEN 1 ELSE 0) + 2 * BitOr(a \div 2, b \div 2)

\* seg: [filename, inst_start, next, filename_len, path_len]
mustache__data_segment_write(seg) ==
    << seg.inst_start % 256,
       Shr(seg.inst_start, 1) % 256,
       Shr(seg.inst_start, 2) % 256,
       Shr(seg.inst_start, 3) % 256,
       seg.next % 256,
       Shr(seg.next, 1) % 256,
       Shr(seg.next, 2) % 256,
       Shr(seg.next, 3) % 256,
       seg.filename_len % 256,
       Shr(seg.filename_len, 1) % 256,
       seg.path_len % 256,
       Shr(seg.path_len, 1) % 256 >>
    \o SubSeq(seg.filename, 1, seg.filename_len) \o << 0 >>

mustache__data_segment_length(filename_len) == SEGMENT_FIXED + filename_len

\* the sub-header found at offset p of the blob
mustache__data_segment_read(data, p) ==
    LET b(k) == ByteAt(data, p + k)
        flen == BitOr(b(8), 2 * b(9)) % UINT16_MOD
    IN  [ filename     |-> Slice(data, p + 12, Min(flen, Len(data) - (p + 12))),
          inst_start   |-> BitOr(BitOr(b(0), 2 * b(1)),
                                 BitOr(4 * b(2), 8 * b(3))),
          next         |-> BitOr(BitOr(b(4), 2 * b(5)),
                                 BitOr(4 * b(6), 8 * b(7))),
          filename_len |-> flen,
          path_len     |-> BitOr(b(10), 2 * b(11)) % UINT16_MOD ]

(***************************************************************************)
(* The file system the loader sees: stat() finds a regular file exactly at *)
(* the paths of Files; size is st_size and content is what pread() yields. *)
(***************************************************************************)
File(cs) == [size |-> Len(cs), content |-> Bytes(cs)]

Files ==
    ( Bytes(<<"p">>) :> File(<<"h", "{", "{", "y", "}", "}">>) ) @@
    ( Bytes(<<"q", ".", "m", "u", "s", "t", "a", "c", "h", "e">>)
        :> File(<<"{", "{", "#", "b", "}", "}", "{", "{", ">", "q", "}", "}",
                  "{", "{", "/", "b", "}", "}">>) ) @@
    ( Bytes(<<"d", "/", "t">>)
        :> File(<<"{", "{", ">", "u", "}", "}", "{", "{", ">", "p", "}", "}">>) ) @@
    ( Bytes(<<"d", "/", "u">>) :> File(<<"u">>) ) @@
    ( Bytes(<<"p", ".", "m", "u", "s", "t", "a", "c", "h", "e">>)
        :> File(<<"m">>) ) @@
    ( Bytes(<<"e">>)
        :> File(<<"{", "{", "=", "<", "%", " ", "%", ">", "=", "}", "}", "<",
                "%", "y", "%", ">">>) ) @@
    ( Bytes(<<"d", "/", "c">>) :> File(<<"{", "{", ">", "s", "}", "}">>) ) @@
    ( Bytes(<<"s">>) :> File(<<"{", "{", ">", "m", "}", "}">>) ) @@
    ( Bytes(<<"d", "/", "m">>) :> File(<<"m">>) ) @@
    \* 18 bytes of text, then the bytes of a sub-header: inst_start 1,
    \* next 0, filename_len 1, path_len 0, filename B
    ( Bytes(<<"B">>)
        :> [ size    |-> 31,
             content |-> [k \in 1..18 |-> 120]
                           \o <<1, 0, 0, 0, 0, 0, 0, 0, 1, 0, 0, 0, 66>> ] ) @@
    \* a template that includes itself
    ( Bytes(<<"y">>) :> File(<<"{", "{", ">", "y", "}", "}">>) ) @@
    \* a file of 2^31 - 1 bytes, which the loader never reads
    ( Bytes(<<"A">>) :> [size |-> INT32_MAX, content |-> << >>] ) @@
    \* templates that close a section they did not open, under the name a and
    \* under the empty name, and one that opens and closes its own
    ( Bytes(<<"c">>) :> File(<<"{", "{", "/", "a", "}", "}">>) ) @@
    ( Bytes(<<"n">>) :> File(<<"x", "{", "{", "/", "}", "}">>) ) @@
    ( Bytes(<<"k">>)
        :> File(<<"{", "{", "#", "a", "}", "}", "{", "{", "/", "a", "}", "}",
                  "{", "{", "/", "a", "}", "}">>) ) @@
    ( Bytes(<<"j">>)
        :> File(<<"{", "{", "#", "a", "}", "}", "x", "{", "{", "/", "a", "}",
                  "}">>) )

\* !stat(path, &f_data) && S_ISREG(f_data.st_mode)
IsRegularFile(path) == path \in DOMAIN Files

(***************************************************************************)
(* The loader.  Its state s is the record                                  *)
(*   i      the instruction array (s.m + 1), intruction_count == Len(i)    *)
(*   data   the data blob, data_len == Len(data); has_data is s.data != 0  *)
(*   index  the parse-stack index, stack[k] the frame at C index k >= 1    *)
(*   err    *args.err, rc the value the last helper returned               *)
(***************************************************************************)
Instruction(op, end, len, name_pos, name_len, offset) ==
    [ instruction |-> op, end |-> end, len |-> len,
      name_pos |-> name_pos, name_len |-> name_len, offset |-> offset ]

\* (mustache__instruction_s){.instruction = op}
BareInstruction(op) == Instruction(op, 0, 0, 0, 0, 0)

mustache__instruction_push(s, inst) ==
    IF Len(s.i) >= INT32_MAX
    THEN [s EXCEPT !.err = "MUSTACHE_ERR_TOO_DEEP", !.rc = -1]
    ELSE [s EXCEPT !.i = Append(@, inst), !.rc = 0]

\* the index just past the last path separator of name, 0 without one
RECURSIVE PathLen(_, _)
PathLen(name, path_len) ==
    IF path_len = 0 THEN 0
    ELSE IF name[path_len] \in {47, 92} THEN path_len
    ELSE PathLen(name, path_len - 1)

\* the walk over the sub-header chain; ~0 (here -1) when the name is not met
RECURSIVE FileIsLoadedFrom(_, _, _, _)
FileIsLoadedFrom(s, p, name, name_len) ==
    IF p < Len(s.data)
    THEN LET seg == mustache__data_segment_read(s.data, p)
         IN  IF seg.filename_len = name_len /\ seg.filename = name
             THEN seg.inst_start
             ELSE IF seg.next = 0 THEN -2 \* data += 0: the walk never ends
             ELSE FileIsLoadedFrom(s, p + seg.next, name, name_len)
    ELSE -1

mustache__file_is_loaded(s, name, name_len) ==
    FileIsLoadedFrom(s, 0, name, name_len)

DefaultFrame(data_start, data_pos, data_end) ==
    [ data_start |-> data_start, data_pos |-> data_pos, data_end |-> data_end,
      open_sections |-> 0,
      del_start |-> <<123, 123>>, del_end |-> <<125, 125>> ]

\* a load whose new parse frame keeps the delimiters of the frame under it
mustache__load_data_inherit(s, name, bytes) ==
    LET old_len  == Len(s.data)
        name_len == Len(name)
        seg_len  == mustache__data_segment_length(name_len)
        header   == mustache__data_segment_write(
                        [ filename     |-> name,
                          filename_len |-> name_len % UINT16_MOD,
                          inst_start   |-> Len(s.i),
                          next         |-> old_len + Len(bytes) + seg_len,
                          path_len     |-> PathLen(name, name_len)
                                               % UINT16_MOD ])
        s1 == [s EXCEPT !.data = @ \o header \o bytes, !.has_data = TRUE]
        s2 == [mustache__instruction_push(s1, BareInstruction("SECTION_START"))
                 EXCEPT !.index = @ + 1]
        frame == DefaultFrame(old_len, old_len + seg_len, Len(s1.data))
    IN  IF s2.index >= MUSTACHE_NESTING_LIMIT
        THEN [s2 EXCEPT !.err = "MUSTACHE_ERR_TOO_DEEP", !.rc = -1]
        ELSE [s2 EXCEPT !.stack = SubSeq(@, 1, s2.index - 1)
                          \o << IF s.index = 0 THEN frame
                                ELSE [frame EXCEPT
                                        !.del_start = s.stack[s.index].del_start,
                                        !.del_end = s.stack[s.index].del_end] >>,
                        !.rc = 0]

\* name: the template's name bytes; bytes: the template's source
mustache__load_data(s, name, bytes) ==
    LET old_len  == Len(s.data)
        name_len == Len(name)
        seg_len  == mustache__data_segment_length(name_len)
        header   == mustache__data_segment_write(
                        [ filename     |-> name,
                          filename_len |-> name_len % UINT16_MOD,
                          inst_start   |-> Len(s.i),
                          next         |-> old_len + Len(bytes) + seg_len,
                          path_len     |-> PathLen(name, name_len)
                                               % UINT16_MOD ])
        s1 == [s EXCEPT !.data = @ \o header \o bytes, !.has_data = TRUE]
        s2 == [mustache__instruction_push(s1, BareInstruction("SECTION_START"))
                 EXCEPT !.index = @ + 1]
    IN  IF (old_len + Len(bytes)) \div 2 > INT32_MAX
        THEN [s EXCEPT !.err = "MUSTACHE_ERR_TOO_DEEP", !.rc = -1]
        ELSE IF s2.index >= MUSTACHE_NESTING_LIMIT
        THEN [s2 EXCEPT !.err = "MUSTACHE_ERR_TOO_DEEP", !.rc = -1]
        ELSE [s2 EXCEPT !.stack = SubSeq(@, 1, s2.index - 1)
                                   \o << DefaultFrame(old_len, old_len + seg_len,
                                                      Len(s1.data)) >>,
                        !.rc = 0]

\* the path walk of mustache__load_file: the candidate found, or <<-1>>
RECURSIVE PathWalk(_, _, _, _, _)
PathWalk(s, name, i, old_path_len, path) ==
    LET seg == IF s.has_data
               THEN mustache__data_segment_read(s.data, s.stack[i].data_start)
               ELSE [filename |-> <<>>, path_len |-> 0]
        i1    == IF seg.path_len = 0 THEN 1 ELSE i
        path1 == SubSeq(seg.filename, 1, seg.path_len) \o name
        path2 == path1 \o Bytes(<<".", "m", "u", "s", "t", "a", "c", "h", "e">>)
    IN  IF /\ old_path_len # 0
           /\ old_path_len = seg.path_len
           /\ SubSeq(path, 1, old_path_len) = SubSeq(seg.filename, 1, old_path_len)
        THEN IF i - 1 = 0 THEN << -1 >>
             ELSE PathWalk(s, name, i - 1, old_path_len, path)
        ELSE IF IsRegularFile(path1) THEN path1
        ELSE IF IsRegularFile(path2) THEN path2
        ELSE IF i1 - 1 = 0 THEN << -1 >>
        ELSE PathWalk(s, name, i1 - 1, seg.path_len, path2)

\* a resolver without the test for the name of the root template
mustache__load_file_no_virtual(s, name, name_len) ==
    LET found == PathWalk(s, name, s.index, 0, <<>>)
        goto(target) ==
            mustache__instruction_push(s,
                Instruction("SECTION_GOTO", Len(s.i), target, 0, 0, 0))
        pre_existing == mustache__file_is_loaded(s, found, Len(found))
    IN  IF name_len = 0
        THEN [s EXCEPT !.err = "MUSTACHE_ERR_FILE_NAME_TOO_SHORT", !.rc = -1]
        ELSE IF found = << -1 >>
        THEN [s EXCEPT !.err = "MUSTACHE_ERR_FILE_NOT_FOUND", !.rc = -1]
        ELSE IF pre_existing # -1
        THEN goto(pre_existing)
        ELSE mustache__load_data(s, found, Files[found].content)

\* name: the bytes of the name, name_len: its length as the size_t passed
mustache__load_file(s, name, name_len) ==
    LET found == PathWalk(s, name, s.index, 0, <<>>)
        root  == mustache__data_segment_read(s.data, 0)
        goto(target) ==
            mustache__instruction_push(s,
                Instruction("SECTION_GOTO", Len(s.i), target, 0, 0, 0))
        pre_existing == mustache__file_is_loaded(s, found, Len(found))
        loaded == mustache__load_data(s, found, Files[found].content)
    IN  IF name_len = 0
        THEN [s EXCEPT !.err = "MUSTACHE_ERR_FILE_NAME_TOO_SHORT", !.rc = -1]
        ELSE IF UAtLeast(name_len, FILE_NAME_LIMIT)
        THEN [s EXCEPT !.err = "MUSTACHE_ERR_FILE_NAME_TOO_LONG", !.rc = -1]
        ELSE IF found = << -1 >>
        THEN IF /\ s.has_data
                /\ root.filename_len = name_len
                /\ root.filename = name
             THEN goto(0)
             ELSE [s EXCEPT !.err = "MUSTACHE_ERR_FILE_NOT_FOUND", !.rc = -1]
        ELSE IF Files[found].size >= INT32_MAX
        THEN [s EXCEPT !.err = "MUSTACHE_ERR_FILE_TOO_BIG", !.rc = -1]
        ELSE IF pre_existing # -1
        THEN goto(pre_existing)
        ELSE IF loaded.rc # 0
        THEN loaded
        ELSE IF Len(Files[found].content) # Files[found].size
        THEN [loaded EXCEPT !.err = "MUSTACHE_ERR_UNKNOWN", !.rc = -1]
        ELSE loaded

(***************************************************************************)
(* mustache_load: one tag of the template on top of the parse stack.       *)
(* beg and end are the offsets of the C pointers of the same names.        *)
(***************************************************************************)
Fail(s, err) == [s EXCEPT !.err = err, !.rc = -1]

Top(s) == s.stack[s.index]

SetTop(s, field, v) == [s EXCEPT !.stack[s.index][field] = v]

\* ++beg; --end; both MUSTACHE_IGNORE_WHITESPACE; ++end
TrimBeg(s, beg) == IgnoreWhitespaceFwd(s.data, beg)

TrimEnd(s, end) == IgnoreWhitespaceBack(s.data, end - 1) + 1

\* a set-delimiters tag that installs its two words whatever their lengths
TagDelimitersUnchecked(s, beg0, end0) ==
    LET beg == TrimBeg(s, beg0 + 1)
        end == TrimEnd(s, end0 - 1)
        RECURSIVE Div(_)
        Div(d) == IF d < end /\ ~isspace(ByteAt(s.data, d)) THEN Div(d + 1) ELSE d
        div  == Div(beg)
        div2 == IgnoreWhitespaceFwd(s.data, div + 1)
    IN  IF ByteAt(s.data, end0 - 1) # 61 \/ div = end \/ div = beg \/ div2 = end
        THEN Fail(s, "MUSTACHE_ERR_CLOSURE_MISMATCH")
        ELSE SetTop(SetTop(s, "del_start", Slice(s.data, beg, div - beg)),
                    "del_end", Slice(s.data, div2, end - div2))

\* a set-delimiters tag that installs nothing
TagDelimitersIgnored(s, beg0, end0) == s

\* case '=': define new separators
TagDelimiters(s, beg0, end0) ==
    LET beg == TrimBeg(s, beg0 + 1)
        end == TrimEnd(s, end0 - 1)
        RECURSIVE Div(_)
        Div(d) == IF d < end /\ ~isspace(ByteAt(s.data, d)) THEN Div(d + 1) ELSE d
        div  == Div(beg)
        div2 == IgnoreWhitespaceFwd(s.data, div + 1)
        \* the starting delimiter is copied before the ending one is tested
        s1   == SetTop(s, "del_start", Slice(s.data, beg, div - beg))
    IN  IF ByteAt(s.data, end0 - 1) # 61
        THEN Fail(s, "MUSTACHE_ERR_CLOSURE_MISMATCH")
        ELSE IF div = end \/ div = beg
        THEN Fail(s, "MUSTACHE_ERR_CLOSURE_MISMATCH")
        ELSE IF div - beg >= MUSTACHE_DELIMITER_LENGTH_LIMIT
        THEN Fail(s, "MUSTACHE_ERR_DELIMITER_TOO_LONG")
        ELSE IF div2 = end
        THEN Fail(s1, "MUSTACHE_ERR_CLOSURE_MISMATCH")
        ELSE IF end - div2 >= MUSTACHE_DELIMITER_LENGTH_LIMIT
        THEN Fail(s1, "MUSTACHE_ERR_DELIMITER_TOO_LONG")
        ELSE SetTop(s1, "del_end", Slice(s.data, div2, end - div2))

\* a section opener that lets the counter of open sections reach the limit
TagSectionStartLate(s, beg0, end0, escape_str) ==
    LET beg == TrimBeg(s, beg0 + 1)
        end == TrimEnd(s, end0)
        s1  == SetTop(s, "open_sections", (Top(s).open_sections + 1) % UINT16_MOD)
    IN  IF Top(s1).open_sections > MUSTACHE_NESTING_LIMIT
        THEN Fail(s1, "MUSTACHE_ERR_TOO_DEEP")
        ELSE mustache__instruction_push(s1,
                Instruction(IF escape_str THEN "SECTION_START"
                                          ELSE "SECTION_START_INV",
                            0, 0, beg, (end - beg) % UINT16_MOD,
                            (Top(s).data_pos - beg) % UINT16_MOD))

\* case '#' and case '^': start section (or inverted section)
TagSectionStart(s, beg0, end0, escape_str) ==
    LET beg == TrimBeg(s, beg0 + 1)
        end == TrimEnd(s, end0)
        s1  == SetTop(s, "open_sections", (Top(s).open_sections + 1) % UINT16_MOD)
        s2  == IF beg >= UINT16_MOD - 1
               THEN [s1 EXCEPT !.err = "MUSTACHE_ERR_NAME_TOO_LONG"]
               ELSE s1
    IN  IF Top(s1).open_sections >= MUSTACHE_NESTING_LIMIT
        THEN Fail(s1, "MUSTACHE_ERR_TOO_DEEP")
        ELSE mustache__instruction_push(s2,
                Instruction(IF escape_str THEN "SECTION_START"
                                          ELSE "SECTION_START_INV",
                            0, 0, beg, (end - beg) % UINT16_MOD,
                            (Top(s).data_pos - beg) % UINT16_MOD))

\* case '>': partial template
TagPartial(s, beg0, end0) ==
    LET beg == TrimBeg(s, beg0 + 1)
        end == TrimEnd(s, end0)
    IN  mustache__load_file(s, Slice(s.data, beg, end - beg), end - beg)

\* the backward scan of case '/': the opener's index (0 based), -1 without one
RECURSIVE FindOpener(_, _, _)
FindOpener(i, pos, nested) ==
    LET op == i[pos + 1].instruction
    IN  IF op = "SECTION_END"
        THEN IF pos = 0 THEN -1 ELSE FindOpener(i, pos - 1, nested + 1)
        ELSE IF op \in {"SECTION_START", "SECTION_START_INV"}
        THEN IF nested > 0
             THEN IF pos = 0 THEN -1 ELSE FindOpener(i, pos - 1, nested - 1)
             ELSE pos
        ELSE IF pos = 0 THEN -1 ELSE FindOpener(i, pos - 1, nested)

\* a section end that closes the nearest opener whatever its name
TagSectionEndAnyName(s, beg0, end0, org_beg) ==
    LET pos == FindOpener(s.i, Len(s.i) - 1, 0)
        opener  == s.i[pos + 1]
        patched == [opener EXCEPT
                      !.end = Len(s.i),
                      !.len = (org_beg - (opener.name_pos + opener.offset))]
        s1 == [s EXCEPT !.i[pos + 1] = patched]
        s2 == mustache__instruction_push(s1,
                  [patched EXCEPT !.instruction = "SECTION_END"])
    IN  IF Top(s).open_sections = 0 \/ pos = -1
        THEN Fail(s, "MUSTACHE_ERR_CLOSURE_MISMATCH")
        ELSE SetTop(s2, "open_sections", Top(s).open_sections - 1)

\* a section end that scans for its opener whatever the counter of open
\* sections of the template holds
TagSectionEndUnguarded(s, beg0, end0, org_beg) ==
    LET beg == TrimBeg(s, beg0 + 1)
        end == TrimEnd(s, end0)
        pos == FindOpener(s.i, Len(s.i) - 1, 0)
        opener  == s.i[pos + 1]
        patched == [opener EXCEPT
                      !.end = Len(s.i),
                      !.len = (org_beg - (opener.name_pos + opener.offset))]
        s1 == [s EXCEPT !.i[pos + 1] = patched]
        s2 == mustache__instruction_push(s1,
                  [patched EXCEPT !.instruction = "SECTION_END"])
    IN  IF pos = -1
        THEN Fail(s, "MUSTACHE_ERR_CLOSURE_MISMATCH")
        ELSE IF \/ opener.name_len # end - beg
                \/ Slice(s.data, beg, opener.name_len)
                     # Slice(s.data, opener.name_pos, opener.name_len)
        THEN Fail(s, "MUSTACHE_ERR_CLOSURE_MISMATCH")
        ELSE SetTop(s2, "open_sections",
                    (Top(s).open_sections - 1) % UINT16_MOD)

\* case '/': section end
TagSectionEnd(s, beg0, end0, org_beg) ==
    LET beg == TrimBeg(s, beg0 + 1)
        end == TrimEnd(s, end0)
        pos == FindOpener(s.i, Len(s.i) - 1, 0)
        opener  == s.i[pos + 1]
        patched == [opener EXCEPT
                      !.end = Len(s.i),
                      !.len = (org_beg - (opener.name_pos + opener.offset))
                                 ]
        s1 == [s EXCEPT !.i[pos + 1] = patched]
        s2 == mustache__instruction_push(s1,
                  [patched EXCEPT !.instruction = "SECTION_END"])
    IN  IF Top(s).open_sections = 0
        THEN Fail(s, "MUSTACHE_ERR_CLOSURE_MISMATCH")
        ELSE IF pos = -1
        THEN Fail(s, "MUSTACHE_ERR_CLOSURE_MISMATCH")
        ELSE IF \/ opener.name_len # end - beg
                \/ Slice(s.data, beg, opener.name_len)
                     # Slice(s.data, opener.name_pos, opener.name_len)
        THEN Fail(s, "MUSTACHE_ERR_CLOSURE_MISMATCH")
        ELSE SetTop(s2, "open_sections", Top(s).open_sections - 1)

\* a variable tag that leaves the '}' after a triple mustache to be read next
TagVariableNoSkip(s, beg0, end0, sigil) ==
    LET escape_str == sigil \notin {123, 38}
        beg  == TrimBeg(s, IF sigil \in {123, 38, 58, 60} THEN beg0 + 1 ELSE beg0)
        end  == TrimEnd(s, end0)
    IN  mustache__instruction_push(s,
            Instruction(IF escape_str THEN "WRITE_ARG" ELSE "WRITE_ARG_UNESCAPED",
                        0, 0, beg, (end - beg) % UINT16_MOD, 0))

\* case '{', '&', ':', '<' and default: a variable
TagVariable(s, beg0, end0, sigil) ==
    LET f    == Top(s)
        skip == /\ sigil = 123
                /\ ByteAt(s.data, f.data_pos) = 125
                /\ f.del_end[1] = 125
                /\ f.del_end[Len(f.del_end)] = 125
        s1   == IF skip THEN SetTop(s, "data_pos", f.data_pos + 1) ELSE s
        escape_str == sigil \notin {123, 38}
        beg  == TrimBeg(s, IF sigil \in {123, 38, 58, 60} THEN beg0 + 1 ELSE beg0)
        end  == TrimEnd(s, end0)
    IN  mustache__instruction_push(s1,
            Instruction(IF escape_str THEN "WRITE_ARG" ELSE "WRITE_ARG_UNESCAPED",
                        0, 0, beg, (end - beg) % UINT16_MOD, 0))

\* one pass of the parsing loop (data_pos < data_end on the top frame)
ParseTag(s) ==
    LET f     == Top(s)
        start == f.data_pos
        beg0  == strstr(s.data, start, f.del_start)
        text(n) == Instruction("WRITE_TEXT", 0, 0, start,
                               n % UINT16_MOD, 0)
        s1    == IF beg0 # start
                 THEN mustache__instruction_push(s, text(beg0 - start))
                 ELSE s
        beg   == beg0 + Len(f.del_start)
        end   == strstr(s.data, beg, f.del_end)
        s2    == SetTop(s1, "data_pos", end + Len(f.del_end))
        sigil == ByteAt(s.data, beg)
    IN  IF beg0 = -1 \/ beg0 >= f.data_end
        THEN SetTop(mustache__instruction_push(s, text(f.data_end - f.data_pos)),
                    "data_pos", f.data_end)
        ELSE IF end = -1 \/ end >= f.data_end
        THEN Fail(s1, "MUSTACHE_ERR_CLOSURE_MISMATCH")
        ELSE CASE sigil = 33 -> s2
               [] sigil = 61 -> TagDelimiters(s2, beg, end)
               [] sigil = 94 -> TagSectionStart(s2, beg, end, FALSE)
               [] sigil = 35 -> TagSectionStart(s2, beg, end, TRUE)
               [] sigil = 62 -> TagPartial(s2, beg, end)
               [] sigil = 47 -> TagSectionEnd(s2, beg, end, beg0)
               [] OTHER      -> TagVariable(s2, beg, end, sigil)

\* the closure of a template that leaves the end of its opener unset
CloseTemplateUnpatched(s) ==
    LET s2 == mustache__instruction_push(s, BareInstruction("SECTION_END"))
    IN  IF Top(s).open_sections # 0
        THEN Fail(s, "MUSTACHE_ERR_CLOSURE_MISMATCH")
        ELSE [s2 EXCEPT !.index = @ - 1, !.stack = SubSeq(@, 1, s.index - 1)]

\* the top template is exhausted: close it and pop the parse stack
CloseTemplate(s) ==
    LET seg == mustache__data_segment_read(s.data, Top(s).data_start)
        s1  == [s EXCEPT !.i[seg.inst_start + 1].end = Len(s.i)]
        s2  == mustache__instruction_push(s1, BareInstruction("SECTION_END"))
    IN  IF Top(s).open_sections # 0
        THEN Fail(s, "MUSTACHE_ERR_CLOSURE_MISMATCH")
        ELSE [s2 EXCEPT !.index = @ - 1, !.stack = SubSeq(@, 1, s.index - 1)]

\* the loader's state before the root template is loaded
LoaderInit(err) ==
    [ i |-> <<>>, data |-> <<>>, has_data |-> FALSE, index |-> 0,
      stack |-> <<>>, err |-> err, rc |-> 0 ]

\* args: [filename, has_data, data]
LoadRoot(args, err) ==
    IF args.has_data
    THEN mustache__load_data(LoaderInit(err), args.filename, args.data)
    ELSE mustache__load_file(LoaderInit(err), args.filename, Len(args.filename))

(***************************************************************************)
(* The builder.  m is the image, [i, data]; the state b of one invocation  *)
(* of mustache_build is the record                                         *)
(*   st     "run" inside the loop, "ok" / "fail" after it returned 0 / -1, *)
(*          "ub" after a read outside the stack array                      *)
(*   pos, index, stack    the fields of mustache__builder_stack_s, the     *)
(*          frame of C index k being stack[k + 1]                          *)
(*   err    *args.err,  udata  args.udata1 and args.udata2                 *)
(*   trace  the calls made to the host's callbacks, in order               *)
(***************************************************************************)
Sec(u1, u2) == [udata1 |-> u1, udata2 |-> u2]

\* a frame pushed with two iterations to make
FrameOfTwo(sec, start, end, index, count, frame) ==
    [ sec |-> sec, start |-> start, end |-> end, index |-> index,
      count |-> 2, frame |-> frame ]

Frame(sec, start, end, index, count, frame) ==
    [ sec |-> sec, start |-> start, end |-> end, index |-> index,
      count |-> count, frame |-> frame ]

\* the frame of C index k
StackAt(b, k) == b.stack[k + 1]

\* the walk up the stack that stops only where both udata differ
RECURSIVE SectionParentBothDiffer(_, _, _)
SectionParentBothDiffer(stack, f, tmp) ==
    IF stack[f + 1].frame = 0 THEN -1
    ELSE IF /\ tmp.udata1 # stack[f].sec.udata1
            /\ tmp.udata2 # stack[f].sec.udata2
         THEN f - 1
         ELSE SectionParentBothDiffer(stack, f - 1, tmp)

\* mustache_section_parent(&stack[k].sec): the C index of the frame returned,
\* -1 for NULL
RECURSIVE SectionParentFrom(_, _, _)
SectionParentFrom(stack, f, tmp) ==
    IF stack[f + 1].frame = 0 THEN -1
    ELSE IF \/ tmp.udata1 # stack[f].sec.udata1
            \/ tmp.udata2 # stack[f].sec.udata2
         THEN f - 1
         ELSE SectionParentFrom(stack, f - 1, tmp)

mustache_section_parent(stack, k) ==
    SectionParentFrom(stack, k, stack[k + 1].sec)

\* mustache_section_text(&stack[k].sec, &len) while the builder is at pos:
\* [ptr, len], ptr = -1 for NULL
mustache_section_text(m, pos, stack, k) ==
    LET inst == m.i[pos + 1]
    IN  IF inst.instruction # "SECTION_START"
        THEN [ptr |-> -1, len |-> 0]
        ELSE [ptr |-> inst.name_pos + inst.offset, len |-> inst.len]

\* what the host did in one callback: the value it returned and whether it
\* stored new udata in the section it was handed
Answer(ret, change, sec) == [ret |-> ret, change |-> change, sec |-> sec]

\* one call of a callback, as the host sees it: the arguments (pos is the
\* instruction the builder is at, frame the C index of the section handed over
\* and start the instruction that section started at, x is escape, callable or
\* index), the udata of the frames 0..frame at the
\* call, what both helpers return for the section handed over, and the host's
\* answer
Called(cb, pos, inst, x, frame, start, chain, parent, text, h) ==
    [ cb |-> cb, pos |-> pos, name_pos |-> inst.name_pos,
      name_len |-> inst.name_len, x |-> x, frame |-> frame, start |-> start,
      chain |-> chain,
      parent |-> parent, text |-> text,
      ret |-> h.ret, change |-> h.change, sec |-> h.sec ]

\* a call of callback cb for instruction inst with the section of the top
\* frame; the host calls both helpers and may store new udata in the section
Callback(m, b, cb, inst, x, h) ==
    LET called == Called(cb, b.pos, inst, x, b.index,
                     StackAt(b, b.index).start,
                     [k \in 1..(b.index + 1) |-> b.stack[k].sec],
                     mustache_section_parent(b.stack, b.index),
                     mustache_section_text(m, b.pos, b.stack, b.index), h)
    IN  [b EXCEPT !.trace = Append(@, called),
                  !.stack[b.index + 1].sec = IF h.change THEN h.sec ELSE @]

\* the labels user_error and error without the call of the host
ErrorUnreported(b, err) ==
    [b EXCEPT !.err = err, !.st = "fail", !.ret = -1]

\* the labels user_error and error
Error(b, err) ==
    [b EXCEPT !.err = err, !.st = "fail", !.ret = -1,
              !.trace = Append(@,
                  Called("mustache_on_formatting_error", b.pos,
                         BareInstruction("none"), 0, 0, 0, << b.udata >>, -1,
                         [ptr |-> -1, len |-> 0], Answer(0, FALSE, b.udata)))]

\* break; ++s.pos
Advance(b) == [b EXCEPT !.pos = @ + 1]

\* a text instruction that aborts the build on -1 only
WriteTextOnMinusOne(m, b, h) ==
    LET b1 == Callback(m, b, "mustache_on_text", m.i[b.pos + 1], 0, h)
    IN  IF h.ret = -1 THEN Error(b1, "MUSTACHE_ERR_USER_ERROR") ELSE Advance(b1)

\* case MUSTACHE_WRITE_TEXT
WriteText(m, b, h) ==
    LET b1 == Callback(m, b, "mustache_on_text", m.i[b.pos + 1], 0, h)
    IN  IF h.ret # 0 THEN Error(b1, "MUSTACHE_ERR_USER_ERROR") ELSE Advance(b1)

\* case MUSTACHE_WRITE_ARG and case MUSTACHE_WRITE_ARG_UNESCAPED
WriteArg(m, b, h) ==
    LET inst == m.i[b.pos + 1]
        b1 == Callback(m, b, "mustache_on_arg", inst,
                       IF inst.instruction = "WRITE_ARG" THEN 1 ELSE 0, h)
    IN  IF h.ret # 0 THEN Error(b1, "MUSTACHE_ERR_USER_ERROR") ELSE Advance(b1)

\* a frame that iterates once at most
RepeatsOnce(f) == f.index = 0 /\ f.count # 0

\* whether the frame has iterations left
Repeats(f) == ULess(f.index, f.count)

\* an iteration that starts with the udata the frame was left with
IterationUdataKept(b) == StackAt(b, b.index).sec

\* the udata an iteration of the top frame starts with
IterationUdata(b) == StackAt(b, b.index - 1).sec

\* the jump to the end of the section without the pop of its frame
LeaveUnpopped(b, f) == [b EXCEPT !.pos = f.end]

\* a pop that jumps back to where the section started
LeaveToStart(b, f) ==
    [b EXCEPT !.pos = IF f.start = 0 THEN f.end ELSE f.start - 1,
              !.index = (@ - 1) % UINT16_MOD,
              !.stack = SubSeq(@, 1, b.index)]

\* the section is done: jump to its end and pop its frame
Leave(b, f) ==
    [b EXCEPT !.pos = f.end,
              !.index = (@ - 1) % UINT16_MOD,
              !.stack = SubSeq(@, 1, b.index)]

\* a SECTION_END that tests the section again at each iteration
SectionEndTests(m, b, h) ==
    LET f    == StackAt(b, b.index)
        b1   == [b EXCEPT !.pos = f.start,
                          !.stack[b.index + 1].sec = IterationUdata(b)]
        inst == m.i[b1.pos + 1]
        b2   == IF inst.name_pos # 0
                THEN Callback(m, b1, "mustache_on_section_test", inst, f.index, h)
                ELSE b1
    IN  IF Repeats(f)
        THEN IF b.index = 0
             THEN [b EXCEPT !.st = "ub"]
             ELSE IF inst.name_pos # 0 /\ h.ret = -1
             THEN Error(b2, "MUSTACHE_ERR_USER_ERROR")
             ELSE Advance([b2 EXCEPT !.stack[b.index + 1].index =
                                         @ + 1])
        ELSE Advance(Leave(b, f))

\* case MUSTACHE_SECTION_END: loop section or continue
SectionEnd(m, b, h) ==
    LET f    == StackAt(b, b.index)
        b1   == [b EXCEPT !.pos = f.start,
                          !.stack[b.index + 1].sec = IterationUdata(b)]
        inst == m.i[b1.pos + 1]
        b2   == IF inst.name_pos # 0
                THEN Callback(m, b1, "mustache_on_section_start", inst, f.index, h)
                ELSE b1
    IN  IF Repeats(f)
        THEN IF b.index = 0
             THEN [b EXCEPT !.st = "ub"]
             ELSE IF inst.name_pos # 0 /\ h.ret = -1
             THEN Error(b2, "MUSTACHE_ERR_USER_ERROR")
             ELSE Advance([b2 EXCEPT !.stack[b.index + 1].index =
                                         @ + 1])
        ELSE Advance(Leave(b, f))

\* the refusal of one more frame, one frame late
TooDeepLate(b) == b.index + 1 > MUSTACHE_NESTING_LIMIT

\* whether one more frame is refused
TooDeep(b) == b.index + 1 >= MUSTACHE_NESTING_LIMIT

\* the number of iterations without the inversion of the test
SectionCountPlain(inst, val) == val

\* the number of iterations of a section whose test returned val
SectionCount(inst, val) ==
    IF inst.instruction = "SECTION_START_INV"
    THEN (IF val = 0 THEN 1 ELSE 0)
    ELSE val

\* case MUSTACHE_SECTION_GOTO, MUSTACHE_SECTION_START and
\* MUSTACHE_SECTION_START_INV: advance stack, test section count
SectionStart(m, b, h1, h2) ==
    LET inst == m.i[b.pos + 1]
        b1   == [b EXCEPT
                   !.index = @ + 1,
                   !.stack = Append(@,
                       Frame(StackAt(b, b.index).sec,
                             IF inst.instruction = "SECTION_GOTO"
                             THEN inst.len ELSE b.pos,
                             inst.end, 0, 1, b.index + 1))]
        b2   == Callback(m, b1, "mustache_on_section_test", inst,
                         IF inst.instruction = "SECTION_START" THEN 1 ELSE 0, h1)
        val  == SectionCount(inst, h1.ret)
    IN  IF TooDeep(b)
        THEN Error(b, "MUSTACHE_ERR_TOO_DEEP")
        ELSE IF inst.name_pos = 0
        THEN SectionEnd(m, b1, h2)
        ELSE IF h1.ret = -1
        THEN Error(b2, "MUSTACHE_ERR_USER_ERROR")
        ELSE SectionEnd(m, [b2 EXCEPT !.stack[b2.index + 1].count =
                                          val], h2)

\* the state of mustache_build when it enters its loop
BuilderInit(m, udata, err) ==
    [ st |-> "run", pos |-> 0, index |-> 0,
      stack |-> << Frame(udata, 0, m.i[1].end, 0, 0, 0) >>,
      err |-> err, ret |-> 0, udata |-> udata, trace |-> <<>> ]

\* mustache_build up to its loop: without an image it fails at once
BuildEnter(m, udata, err) ==
    IF m.null
    THEN Error([ st |-> "run", pos |-> 0, index |-> 0, stack |-> <<>>,
                 err |-> err, ret |-> 0, udata |-> udata, trace |-> <<>> ],
               "MUSTACHE_ERR_USER_ERROR")
    ELSE BuilderInit(m, udata, err)

\* an image whose instruction at pos is rewritten by the pass over it
ImageMarked(m, b) ==
    IF b.pos < Len(m.i)
    THEN [m EXCEPT !.i[b.pos + 1].instruction = "WRITE_TEXT"]
    ELSE m

\* the image after one pass of the loop: no pass stores through the pointers
\* to the instructions and the data
ImageAfter(m, b) == m

\* whether the instruction at pos calls the host first
CallsFirst(m, b) ==
    LET inst == m.i[b.pos + 1]
    IN  \/ inst.instruction \in {"WRITE_TEXT", "WRITE_ARG", "WRITE_ARG_UNESCAPED"}
        \/ /\ inst.instruction \in {"SECTION_START", "SECTION_START_INV"}
           /\ inst.name_pos # 0
           /\ ~TooDeep(b)

\* one pass of the loop of mustache_build, h1 and h2 being the host's
\* answers to the callbacks the instruction makes
BuildStep(m, b, h1, h2) ==
    LET op == m.i[b.pos + 1].instruction
    IN  IF b.pos >= Len(m.i)
        THEN [b EXCEPT !.err = "MUSTACHE_OK", !.st = "ok", !.ret = 0]
        ELSE IF b.index >= MUSTACHE_NESTING_LIMIT
        THEN [b EXCEPT !.st = "ub"]
        ELSE CASE op = "WRITE_TEXT" -> WriteText(m, b, h1)
               [] op \in {"WRITE_ARG", "WRITE_ARG_UNESCAPED"} -> WriteArg(m, b, h1)
               [] op \in {"SECTION_GOTO", "SECTION_START", "SECTION_START_INV"} ->
                    SectionStart(m, b, h1, h2)
               [] op = "SECTION_END" -> SectionEnd(m, b, h2)

(***************************************************************************)
(* The inputs: the root templates handed to mustache_load, and the host.   *)
(***************************************************************************)
Tokens ==
    { <<"x">>,
      <<"{", "{", "a", "}", "}">>,
      <<"{", "{", "#", "a", "}", "}">>,
      <<"{", "{", "^", "a", "}", "}">>,
      <<"{", "{", "/", "a", "}", "}">> }

RECURSIVE TokenTemplates(_)
TokenTemplates(n) ==
    IF n = 0 THEN { <<>> }
    ELSE LET shorter == TokenTemplates(n - 1)
         IN  shorter \cup { t \o k : t \in shorter, k \in Tokens }

\* templates longer than MaxTokens tokens, and the ones that include themselves
ExtraTemplates ==
    { <<"{", "{", ">", "r", "}", "}">>,
      <<"{", "{", ">", "p", "}", "}", "{", "{", "&", "b", "}", "}",
        "{", "{", ">", "p", "}", "}">>,
      <<"{", "{", "#", "a", "}", "}", "{", "{", ">", "p", "}", "}",
        "{", "{", "/", "a", "}", "}">>,
      <<"{", "{", "^", "a", "}", "}", "{", "{", ">", "r", "}", "}",
        "{", "{", "/", "a", "}", "}">>,
      <<"{", "{", "^", "a", "}", "}", "x", "{", "{", "/", "a", "}", "}",
        "{", "{", "^", "b", "}", "}", "x", "{", "{", "/", "b", "}", "}">>,
      <<"{", "{", "#", "a", "}", "}", "{", "{", "#", "b", "}", "}", "x",
        "{", "{", "/", "b", "}", "}", "{", "{", "/", "a", "}", "}">>,
      <<"{", "{", "#", "a", "}", "}", "{", "{", ">", "r", "}", "}",
        "{", "{", "/", "a", "}", "}">>,
      <<"{", "{", "#", "a", "}", "}", "{", "{", ">", "q", "}", "}",
        "{", "{", "/", "a", "}", "}", "{", "{", ">", "q", "}", "}">> }

\* the root template given as in-memory data under the name r
VirtualRoot(cs) ==
    [filename |-> Bytes(<<"r">>), has_data |-> TRUE, data |-> Bytes(cs)]

\* the root template given as a file name
FileRoot(cs) == [filename |-> Bytes(cs), has_data |-> FALSE, data |-> <<>>]

RootArgs ==
    { VirtualRoot(cs) : cs \in TokenTemplates(MaxTokens) \cup ExtraTemplates }
    \cup { FileRoot(<<"d", "/", "t">>), FileRoot(<<"q">>), FileRoot(<<"z">>) }

\* the udata pairs the caller and the host use
RootUdata(t) == { Sec(0, t - 1) }

HostUdata == { Sec(1, 0), Sec(0, 1) }

Returns(cb) ==
    IF cb = "mustache_on_section_test" THEN {-2, -1, 0, 1, 2} ELSE {-1, 0, 1}

\* what a callback returns when the host lets the build go on undisturbed
Proceed(cb) == IF cb = "mustache_on_section_test" THEN 1 ELSE 0

\* the host's possible answers to its n-th callback, cb: any return value, or
\* new udata for the section together with the value that lets the build go on
Answers(cb, n) ==
    IF n > MaxChoice
    THEN { Answer(Proceed(cb), FALSE, Sec(0, 0)) }
    ELSE { Answer(r, FALSE, Sec(0, 0)) : r \in Returns(cb) }
         \cup { Answer(Proceed(cb), TRUE, u) : u \in HostUdata }

(***************************************************************************)
(* The state machine: a load of one root template, then builds of the      *)
(* image by the threads.                                                   *)
(***************************************************************************)
VARIABLES
    args,      \* the arguments of mustache_load
    pc,        \* where mustache_load is
    loader,    \* mustache__loader_stack_s and *args.err
    mustache,  \* the image mustache_load returned
    builder    \* per thread, its invocation of mustache_build

vars == << args, pc, loader, mustache, builder >>

Threads == {1, 2}

Idle ==
    [ st |-> "idle", pos |-> 0, index |-> 0, stack |-> <<>>, err |-> "unset",
      ret |-> 0, udata |-> Sec(0, 0), trace |-> <<>> ]

NullImage == [null |-> TRUE, i |-> <<>>, data |-> <<>>]

Init ==
    /\ args \in RootArgs
    /\ pc = "start"
    /\ loader = LoaderInit("unset")
    /\ mustache = NullImage
    /\ builder = [t \in Threads |-> Idle]

\* the label error of mustache_load, or the next pass of its loops
AfterLoad(s) ==
    /\ loader' = s
    /\ pc' = IF s.rc # 0 THEN "failed" ELSE "parse"
    /\ UNCHANGED << args, mustache, builder >>

\* mustache_load up to its first loop: the root template is loaded
LoadStart ==
    /\ pc = "start"
    /\ AfterLoad(LoadRoot(args, loader.err))

\* one pass of the parsing loop
LoadTag ==
    /\ pc = "parse"
    /\ loader.index > 0
    /\ Top(loader).data_pos < Top(loader).data_end
    /\ AfterLoad(ParseTag(loader))

\* the end of a template: closure instruction and pop
LoadClose ==
    /\ pc = "parse"
    /\ loader.index > 0
    /\ Top(loader).data_pos >= Top(loader).data_end
    /\ AfterLoad(CloseTemplate(loader))

\* the parse stack is empty: the image is consolidated and returned
LoadReturn ==
    /\ pc = "parse"
    /\ loader.index = 0
    /\ loader' = [loader EXCEPT !.err = "MUSTACHE_OK"]
    /\ mustache' = [null |-> FALSE, i |-> loader.i, data |-> loader.data]
    /\ pc' = "loaded"
    /\ UNCHANGED << args, builder >>

\* thread t calls mustache_build on what mustache_load returned
BuildStart(t) ==
    /\ pc \in {"loaded", "failed"}
    /\ builder[t].st = "idle"
    /\ \E udata \in RootUdata(t) :
          builder' = [builder EXCEPT ![t] = BuildEnter(mustache, udata, "unset")]
    /\ UNCHANGED << args, pc, loader, mustache >>

\* the callback the instruction at pos calls first
FirstCallback(m, b) ==
    LET op == m.i[b.pos + 1].instruction
    IN  CASE op = "WRITE_TEXT" -> "mustache_on_text"
          [] op \in {"WRITE_ARG", "WRITE_ARG_UNESCAPED"} -> "mustache_on_arg"
          [] OTHER -> "mustache_on_section_test"

\* the answer of a callback that is not called
NoAnswer == Answer(0, FALSE, Sec(0, 0))

\* whether the instruction at pos can call on_section_start
CallsStart(m, b) ==
    m.i[b.pos + 1].instruction \in
        {"SECTION_START", "SECTION_START_INV", "SECTION_END"}

\* thread t makes one pass of the loop of mustache_build, or leaves it
Build(t) ==
    LET b == builder[t]
        n == Len(b.trace)
        first  == b.pos < Len(mustache.i) /\ CallsFirst(mustache, b)
        second == b.pos < Len(mustache.i) /\ CallsStart(mustache, b)
    IN  /\ pc = "loaded"
        /\ b.st = "run"
        /\ n + 2 <= MaxTrace
        /\ \E h1 \in IF first
                      THEN Answers(FirstCallback(mustache, b), n + 1)
                      ELSE { NoAnswer },
              h2 \in IF second
                      THEN Answers("mustache_on_section_start",
                                   IF first THEN n + 2 ELSE n + 1)
                      ELSE { NoAnswer } :
              /\ builder' = [builder EXCEPT ![t] = BuildStep(mustache, b, h1, h2)]
              /\ mustache' = ImageAfter(mustache, b)
        /\ UNCHANGED << args, pc, loader >>

\* root templates with a run of text of 2^16 bytes, one less and one more,
\* alone, before a variable and before a variable and more text
LongArgs ==
    { [ filename |-> Bytes(<<"r">>), has_data |-> TRUE,
        data |-> [k \in 1..n |-> Asc("x")] \o Bytes(tail) ] :
          n \in { UINT16_MOD - 1, UINT16_MOD, UINT16_MOD + 1 },
          tail \in { <<>>, <<"{", "{", "a", "}", "}">>,
                     <<"{", "{", " ", "a", " ", "}", "}", "y">> } }

InitLong ==
    /\ args \in LongArgs
    /\ pc = "start"
    /\ loader = LoaderInit("unset")
    /\ mustache = NullImage
    /\ builder = [t \in Threads |-> Idle]

Next ==
    \/ LoadStart
    \/ LoadTag
    \/ LoadClose
    \/ LoadReturn
    \/ BuildStart(1)
    \/ Build(1)

Spec == Init /\ [][Next]_vars

\* the same load and build of the templates with long runs of text
SpecLong == InitLong /\ [][Next]_vars

\* the root templates built by two threads at once: text and variables, an
\* inverted section, and a partial included twice
ConcArgs ==
    { VirtualRoot(<<"x", "{", "{", "a", "}", "}">>),
      VirtualRoot(<<"{", "{", "^", "a", "}", "}", "x", "{", "{", "/", "a", "}", "}",
                    "{", "{", "b", "}", "}">>),
      VirtualRoot(<<"{", "{", ">", "p", "}", "}", "{", "{", ">", "p", "}", "}">>) }

InitConc ==
    /\ args \in ConcArgs
    /\ pc = "start"
    /\ loader = LoaderInit("unset")
    /\ mustache = NullImage
    /\ builder = [t \in Threads |-> Idle]

\* a load, then both threads build the image, their passes interleaved
NextConc ==
    \/ LoadStart
    \/ LoadTag
    \/ LoadClose
    \/ LoadReturn
    \/ \E t \in Threads : BuildStart(t)
    \/ \E t \in Threads : Build(t)

SpecConc == InitConc /\ [][NextConc]_vars

\* the root templates of the loader's cases
LoadTemplates ==
    \* closers that do not match, an open section at the end, an unclosed tag
    { <<"{", "{", "#", "a", "}", "}", "{", "{", "/", "b", "}", "}">>,
      <<"{", "{", "#", "a", "}", "}", "{", "{", "#", "b", "}", "}", "{",
        "{", "/", "a", "}", "}", "{", "{", "/", "b", "}", "}">>,
      <<"{", "{", "#", "a", "}", "}", "x">>,
      <<"x", "{", "{", "a">>,
      <<"{", "{", "#", "a", "}", "}", "{", "{", "/", "a", "}", "}", "x",
        "{", "{">>,
    \* set-delimiters tags
      <<"A", "{", "{", "=", "<", "%", " ", "%", ">", "=", "}", "}", "<",
        "%", "x", "%", ">", "B">>,
      <<"{", "{", "=", "<", "%", " ", "%", ">", "=", "}", "}", "{", "{",
        "a", "}", "}", "<", "%", "b", "%", ">">>,
      <<"{", "{", "=", "<", "%", " ", "%", ">", "=", "}", "}", "<", "%",
        "a", "%", ">", "<", "%", "=", "{", "{", " ", "}", "}", "=", "%",
        ">", "{", "{", "b", "}", "}", "<", "%", "c", "%", ">">>,
      <<"{", "{", "=", "<", "%", " ", "%", ">", "=", "}", "}", "<", "%",
        "#", "a", "%", ">", "x", "<", "%", "/", "a", "%", ">">>,
      <<"{", "{", "=", "a", "a", "a", "a", "a", "a", "a", "a", "a", "a",
        " ", "b", "=", "}", "}", "a", "a", "a", "a", "a", "a", "a", "a",
        "a", "a", "x", "b", "y">>,
      <<"{", "{", "=", "a", " ", "b", "b", "b", "b", "b", "b", "b", "b",
        "b", "b", "=", "}", "}", "a", "x", "b", "b", "b", "b", "b", "b",
        "b", "b", "b", "b">>,
      <<"{", "{", "=", "a", "a", "a", "a", "a", "a", "a", "a", "a", "a",
        "a", " ", "b", "=", "}", "}">>,
      <<"{", "{", "=", "a", " ", "b", "b", "b", "b", "b", "b", "b", "b",
        "b", "b", "b", "=", "}", "}">>,
      <<"{", "{", "=", "a", " ", "b", "}", "}">>,
      <<"{", "{", "=", "a", "=", "}", "}">>,
      <<"{", "{", "=", " ", "=", "}", "}">>,
      <<"{", "{", "=", "=", "}", "}">>,
    \* set-delimiters tags around partials
      <<"{", "{", "=", "<", "%", " ", "%", ">", "=", "}", "}", "<", "%",
        ">", "p", "%", ">", "<", "%", "x", "%", ">", "{", "{", "z", "}",
        "}">>,
      <<"{", "{", ">", "e", "}", "}", "{", "{", "x", "}", "}", "<", "%",
        "z", "%", ">">>,
    \* variable tags of every kind
      <<"{", "{", "{", "x", "}", "}", "}", "y", "{", "{", "&", "x", "}",
        "}", "y", "{", "{", "x", "}", "}">>,
      <<"{", "{", "{", " ", "x", " ", "}", "}", "}">>,
      <<"{", "{", ":", "x", "}", "}", "{", "{", "<", "x", "}", "}", "{",
        "{", "!", " ", "c", " ", "}", "}">>,
      <<"{", "{", "{", "x", "}", "}", "y">>,
      <<"{", "{", "&", "x", "}", "}", "}">>,
    \* partials: included twice, three templates, the root by name, no file, one directory inside another
      <<"{", "{", ">", "p", "}", "}", "{", "{", ">", "p", "}", "}">>,
      <<"{", "{", ">", "p", "}", "}", "{", "{", ">", "d", "/", "u", "}",
        "}", "{", "{", ">", "d", "/", "u", "}", "}">>,
      <<"{", "{", ">", "q", "}", "}", "x">>,
      <<"x", "{", "{", ">", "r", "}", "}">>,
      <<"{", "{", ">", "z", "}", "}">>,
      <<"{", "{", ">", "d", "/", "c", "}", "}">>,
      <<"{", "{", ">", "d", "/", "t", "}", "}">> }

LoadArgs ==
    { VirtualRoot(cs) : cs \in LoadTemplates }
    \cup { FileRoot(<<"d", "/", "t">>), FileRoot(<<"q">>), FileRoot(<<"z">>) }

InitLoad ==
    /\ args \in LoadArgs
    /\ pc = "start"
    /\ loader = LoaderInit("unset")
    /\ mustache = NullImage
    /\ builder = [t \in Threads |-> Idle]

\* the load and build of the templates of the loader's cases
SpecLoad == InitLoad /\ [][Next]_vars

(***************************************************************************)
(* The properties.  An entry of a trace is a call of the host; the calls   *)
(* of the four rendering callbacks are the ones the host answers.          *)
(***************************************************************************)
HostCallbacks ==
    { "mustache_on_text", "mustache_on_arg", "mustache_on_section_test",
      "mustache_on_section_start" }

\* the indices of the entries of a trace that call on_formatting_error
ErrorCalls(tr) ==
    { k \in 1..Len(tr) : tr[k].cb = "mustache_on_formatting_error" }

\* the instruction the invocation b is at, "none" past the last one
OpAt(b) ==
    IF ~mustache.null /\ b.pos < Len(mustache.i)
    THEN mustache.i[b.pos + 1].instruction
    ELSE "none"

\* C4: a callback that returns -1 is the last call of a rendering callback,
\* it is followed by exactly one call of on_formatting_error with the udata
\* given to mustache_build, *err is USER_ERROR and the build returns -1; every
\* failing build calls on_formatting_error exactly once, as its last call, and
\* a build that has not failed never called it.
AbortReportedOnce ==
    \A t \in Threads :
        LET b  == builder[t]
            tr == b.trace
            n  == Len(tr)
        IN  /\ \A k \in 1..n :
                   (tr[k].cb \in HostCallbacks /\ tr[k].ret = -1) =>
                       /\ k = n - 1
                       /\ b.st = "fail"
                       /\ b.err = "MUSTACHE_ERR_USER_ERROR"
                       /\ b.ret = -1
            /\ b.st = "fail" =>
                   /\ ErrorCalls(tr) = {n}
                   /\ tr[n].chain = << b.udata >>
                   /\ b.ret = -1
                   /\ b.err \in {"MUSTACHE_ERR_USER_ERROR", "MUSTACHE_ERR_TOO_DEEP"}
            /\ b.st # "fail" => ErrorCalls(tr) = {}
            /\ b.st = "ok" => b.ret = 0

\* C4's case: the second start of an iteration returned -1 and the build failed
AbortReportedOnceWitness ==
    LET b  == builder[1]
        tr == b.trace
        n  == Len(tr)
    IN  /\ b.st = "fail"
        /\ n >= 4
        /\ tr[n - 1].cb = "mustache_on_section_start"
        /\ tr[n - 1].x = 1
        /\ tr[n - 1].ret = -1
        /\ tr[n].cb = "mustache_on_formatting_error"

\* C6: mustache_section_parent returns the nearest frame under the section
\* whose udata1 or udata2 differs from the section's, NULL when there is none
\* (the root frame has none); the walk ends at the frame of index 0, which is
\* the only frame whose frame field is 0.
ParentIsNearestDiffering ==
    \A t \in Threads :
        LET b == builder[t]
        IN  /\ \A k \in 1..Len(b.stack) : b.stack[k].frame = k - 1
            /\ \A k \in 1..Len(b.trace) :
                   LET e      == b.trace[k]
                       differ == { j \in 0..(e.frame - 1) :
                                     e.chain[j + 1] # e.chain[e.frame + 1] }
                   IN  e.cb \in HostCallbacks =>
                           /\ Len(e.chain) = e.frame + 1
                           /\ e.parent \in -1..(e.frame - 1)
                           /\ differ = {} => e.parent = -1
                           /\ differ # {} =>
                                  /\ e.parent \in differ
                                  /\ \A j \in differ : j <= e.parent

\* C6's case: the frame right under the section has the section's udata and
\* the frame under that one differs in udata1 only
ParentIsNearestDifferingWitness ==
    \E k \in 1..Len(builder[1].trace) :
        LET e == builder[1].trace[k]
        IN  /\ e.cb \in HostCallbacks
            /\ e.frame = 2
            /\ e.chain[2] = e.chain[3]
            /\ e.chain[1].udata1 # e.chain[3].udata1
            /\ e.chain[1].udata2 = e.chain[3].udata2
            /\ e.parent = 0

\* whether the invocation b is about to push a frame on a full stack
PushOnFullStack(b) ==
    /\ b.st = "run"
    /\ OpAt(b) \in {"SECTION_GOTO", "SECTION_START", "SECTION_START_INV"}
    /\ b.index = MUSTACHE_NESTING_LIMIT - 1

\* the stack index of every invocation is an index of the stack array
IndexInStack ==
    \A t \in Threads :
        /\ builder[t].st # "ub"
        /\ builder[t].index < MUSTACHE_NESTING_LIMIT
        /\ Len(builder[t].stack) <= MUSTACHE_NESTING_LIMIT
        /\ builder[t].st = "run" => Len(builder[t].stack) = builder[t].index + 1

\* C8: the stack index stays below MUSTACHE_NESTING_LIMIT and no frame outside
\* the array is used; a section, inverted section or partial met with all 96
\* frames in use makes the build return -1 with *err = TOO_DEEP.
StackWithinLimit ==
    /\ []IndexInStack
    /\ [][\A t \in Threads :
              PushOnFullStack(builder[t]) =>
                  /\ builder'[t].st = "fail"
                  /\ builder'[t].ret = -1
                  /\ builder'[t].err = "MUSTACHE_ERR_TOO_DEEP"
                  /\ builder'[t].index = builder[t].index]_vars

\* C8's case: a build failed with TOO_DEEP with the last frame of the array
\* in use
StackWithinLimitWitness ==
    /\ builder[1].st = "fail"
    /\ builder[1].err = "MUSTACHE_ERR_TOO_DEEP"
    /\ builder[1].index = MUSTACHE_NESTING_LIMIT - 1
    /\ Len(builder[1].stack) = MUSTACHE_NESTING_LIMIT

\* C9: a build that returns 0 ends with stack index 0, the position equal to
\* the number of instructions and *err = OK; no SECTION_END is executed at
\* stack index 0, so the index never wraps below 0.
BuildEndsBalanced ==
    \A t \in Threads :
        LET b == builder[t]
        IN  /\ b.st = "ok" =>
                   /\ b.index = 0
                   /\ Len(b.stack) = 1
                   /\ b.pos = Len(mustache.i)
                   /\ b.err = "MUSTACHE_OK"
                   /\ b.ret = 0
            /\ (b.st = "run" /\ OpAt(b) = "SECTION_END") => b.index >= 1
            /\ b.index # UINT16_MOD - 1

\* C9's case: a build returned 0 after it ran a section in a section
BuildEndsBalancedWitness ==
    /\ builder[1].st = "ok"
    /\ \E k \in 1..Len(builder[1].trace) :
           /\ builder[1].trace[k].frame = 3
           /\ builder[1].trace[k].cb = "mustache_on_text"

\* at the test of a section and at the start of each of its iterations the
\* frame handed over has the udata of the frame under it
UdataAtEntry ==
    \A t \in Threads :
        \A k \in 1..Len(builder[t].trace) :
            LET e == builder[t].trace[k]
            IN  e.cb \in {"mustache_on_section_test",
                          "mustache_on_section_start"} =>
                    /\ e.frame >= 1
                    /\ e.chain[e.frame + 1] = e.chain[e.frame]

\* one pass of thread t changes the udata of no frame under the one its
\* callbacks are handed, and a call of on_text or on_arg leaves in the frame
\* it is handed what the host stored there
AncestorsKeepUdata(t) ==
    LET b   == builder[t]
        c   == builder'[t]
        top == IF OpAt(b) \in {"SECTION_GOTO", "SECTION_START",
                               "SECTION_START_INV"}
               THEN b.index + 1 ELSE b.index
        e   == c.trace[Len(b.trace) + 1]
    IN  (b.st = "run" /\ c # b) =>
            /\ \A j \in 1..Min(top, Len(c.stack)) :
                   c.stack[j].sec = b.stack[j].sec
            /\ OpAt(b) \in {"WRITE_TEXT", "WRITE_ARG", "WRITE_ARG_UNESCAPED"} =>
                   /\ Len(c.stack) = Len(b.stack)
                   /\ c.stack[top + 1].sec =
                          IF e.change THEN e.sec ELSE b.stack[top + 1].sec

\* C5: a frame has the udata of the frame under it when it is pushed (at the
\* test of its section) and at the start of each iteration; a callback changes
\* the udata of the frame it is handed only, so no frame under it is changed,
\* and what an iteration stored is gone at the start of the next one.
UdataInheritedDownward ==
    /\ []UdataAtEntry
    /\ [][\A t \in Threads : AncestorsKeepUdata(t)]_vars

\* C5's case: the first iteration of a section stored udata in its frame and
\* the second iteration starts with the udata of the frame under it
UdataInheritedDownwardWitness ==
    LET tr == builder[1].trace
    IN  \E k \in 1..Len(tr) : \E l \in (k + 1)..Len(tr) :
            /\ tr[k].cb = "mustache_on_section_start"
            /\ tr[k].x = 0
            /\ tr[k].change
            /\ tr[l].cb = "mustache_on_section_start"
            /\ tr[l].x = 1
            /\ tr[l].pos = tr[k].pos
            /\ tr[l].frame = tr[k].frame
            /\ tr[l].chain[tr[l].frame + 1] # tr[k].sec
            /\ tr[l].chain[tr[l].frame + 1] = tr[l].chain[tr[l].frame]

\* one pass of thread t over the opener of an inverted section, with a frame
\* to spare: the test is called with callable 0; on 0 the section is started
\* once with index 0 and its body is entered with no iteration left; on any
\* other value but -1 nothing more is called and the build goes on right
\* after the closer, the stack as it was
InvertedOpener(t) ==
    LET b    == builder[t]
        c    == builder'[t]
        n    == Len(b.trace)
        inst == mustache.i[b.pos + 1]
    IN  (b.st = "run" /\ OpAt(b) = "SECTION_START_INV"
         /\ b.index + 1 < MUSTACHE_NESTING_LIMIT /\ c # b) =>
            /\ Len(c.trace) > n
            /\ c.trace[n + 1].cb = "mustache_on_section_test"
            /\ c.trace[n + 1].x = 0
            /\ c.trace[n + 1].ret = 0 =>
                   /\ Len(c.trace) >= n + 2
                   /\ c.trace[n + 2].cb = "mustache_on_section_start"
                   /\ c.trace[n + 2].x = 0
                   /\ c.trace[n + 2].pos = b.pos
                   /\ c.trace[n + 2].ret # -1 =>
                          /\ c.st = "run"
                          /\ Len(c.trace) = n + 2
                          /\ c.pos = b.pos + 1
                          /\ c.index = b.index + 1
                          /\ StackAt(c, c.index).start = b.pos
                          /\ StackAt(c, c.index).end = inst.end
                          /\ StackAt(c, c.index).index = 1
                          /\ StackAt(c, c.index).count = 1
            /\ c.trace[n + 1].ret \notin {0, -1} =>
                   /\ c.st = "run"
                   /\ Len(c.trace) = n + 1
                   /\ c.pos = inst.end + 1
                   /\ c.index = b.index
                   /\ c.stack = b.stack

\* one pass of thread t over the closer of an inverted section: the body was
\* executed once, the section is left
InvertedCloser(t) ==
    LET b == builder[t]
        c == builder'[t]
        f == StackAt(b, b.index)
    IN  (b.st = "run" /\ OpAt(b) = "SECTION_END" /\ c # b
         /\ mustache.i[f.start + 1].instruction = "SECTION_START_INV") =>
            /\ f.end = b.pos
            /\ c.st = "run"
            /\ c.trace = b.trace
            /\ c.pos = b.pos + 1
            /\ c.index = b.index - 1
            /\ c.stack = SubSeq(b.stack, 1, b.index)

\* C3: the body of an inverted section is executed exactly once when the
\* test returns 0 and not at all when it returns any other value but -1.
InvertedIsComplement ==
    [][\A t \in Threads : InvertedOpener(t) /\ InvertedCloser(t)]_vars

\* C3's case: a build returned 0 after one inverted section's test returned 0
\* and its body called on_text, and another's test returned 2
InvertedIsComplementWitness ==
    LET tr == builder[1].trace
    IN  /\ builder[1].st = "ok"
        /\ \E k \in 1..Len(tr) :
               /\ tr[k].cb = "mustache_on_section_test"
               /\ mustache.i[tr[k].pos + 1].instruction = "SECTION_START_INV"
               /\ tr[k].ret = 0
               /\ k + 2 <= Len(tr)
               /\ tr[k + 1].cb = "mustache_on_section_start"
               /\ tr[k + 2].cb = "mustache_on_text"
               /\ tr[k + 2].pos = tr[k].pos + 1
        /\ \E k \in 1..Len(tr) :
               /\ tr[k].cb = "mustache_on_section_test"
               /\ mustache.i[tr[k].pos + 1].instruction = "SECTION_START_INV"
               /\ tr[k].ret = 2

\* whether entry e is a call of cb made at instruction p with frame d
IsCall(e, cb, p, d) == e.cb = cb /\ e.pos = p /\ e.frame = d

\* whether the instruction at p is the opener of a plain section
PlainSectionAt(p) ==
    /\ mustache.i[p + 1].instruction = "SECTION_START"
    /\ mustache.i[p + 1].name_pos # 0

\* one pass of thread t over the opener of a plain section, with a frame to
\* spare: the test is called with callable 1; on 0 nothing more is called and
\* the build goes on right after the closer, the stack as it was; on N > 0
\* the section is started with index 0 and its body is entered with N
\* iterations to make, the first one counted
PlainOpener(t) ==
    LET b    == builder[t]
        c    == builder'[t]
        n    == Len(b.trace)
        inst == mustache.i[b.pos + 1]
    IN  (b.st = "run" /\ OpAt(b) = "SECTION_START" /\ inst.name_pos # 0
         /\ b.index + 1 < MUSTACHE_NESTING_LIMIT /\ c # b) =>
            /\ Len(c.trace) > n
            /\ IsCall(c.trace[n + 1], "mustache_on_section_test", b.pos,
                      b.index + 1)
            /\ c.trace[n + 1].x = 1
            /\ c.trace[n + 1].ret = 0 =>
                   /\ c.st = "run"
                   /\ Len(c.trace) = n + 1
                   /\ c.pos = inst.end + 1
                   /\ c.index = b.index
                   /\ c.stack = b.stack
            /\ c.trace[n + 1].ret > 0 =>
                   /\ Len(c.trace) >= n + 2
                   /\ IsCall(c.trace[n + 2], "mustache_on_section_start", b.pos,
                             b.index + 1)
                   /\ c.trace[n + 2].x = 0
                   /\ c.trace[n + 2].ret # -1 =>
                          /\ c.st = "run"
                          /\ Len(c.trace) = n + 2
                          /\ c.pos = b.pos + 1
                          /\ c.index = b.index + 1
                          /\ StackAt(c, c.index).start = b.pos
                          /\ StackAt(c, c.index).end = inst.end
                          /\ StackAt(c, c.index).index = 1
                          /\ StackAt(c, c.index).count = c.trace[n + 1].ret

\* one pass of thread t over the closer of a plain section that was to make
\* N > 0 iterations, the body executed to its end: with i < N iterations
\* made the section is started with index i and its body entered again, with
\* N made the section is left and nothing is called
PlainCloser(t) ==
    LET b == builder[t]
        c == builder'[t]
        n == Len(b.trace)
        f == StackAt(b, b.index)
    IN  (b.st = "run" /\ OpAt(b) = "SECTION_END" /\ c # b
         /\ PlainSectionAt(f.start) /\ f.count > 0) =>
            /\ f.end = b.pos
            /\ f.index \in 1..f.count
            /\ f.index < f.count =>
                   /\ Len(c.trace) >= n + 1
                   /\ IsCall(c.trace[n + 1], "mustache_on_section_start",
                             f.start, b.index)
                   /\ c.trace[n + 1].x = f.index
                   /\ c.trace[n + 1].ret # -1 =>
                          /\ c.st = "run"
                          /\ Len(c.trace) = n + 1
                          /\ c.pos = f.start + 1
                          /\ c.index = b.index
                          /\ StackAt(c, c.index).index = f.index + 1
                          /\ StackAt(c, c.index).count = f.count
                          /\ StackAt(c, c.index).start = f.start
                          /\ StackAt(c, c.index).end = f.end
            /\ f.index = f.count =>
                   /\ c.st = "run"
                   /\ c.trace = b.trace
                   /\ c.pos = b.pos + 1
                   /\ c.index = b.index - 1
                   /\ c.stack = SubSeq(b.stack, 1, b.index)

\* C2: a plain section whose test returns 0 is skipped, with no call for it
\* or for an instruction of its body; one whose test returns N > 0 is started
\* N times, with index 0, 1, ..., N-1 in this order, each start followed by
\* one execution of the body up to the closer.
PlainSectionIterates ==
    [][\A t \in Threads : PlainOpener(t) /\ PlainCloser(t)]_vars

\* C2's case: in a build that returned 0 the test of a plain section returned
\* 2 and its body, which calls on_text, was executed after the start with
\* index 0 and after the start with index 1
PlainSectionIteratesWitness ==
    LET tr == builder[1].trace
    IN  /\ builder[1].st = "ok"
        /\ \E k \in 1..(Len(tr) - 4) :
               /\ tr[k].cb = "mustache_on_section_test"
               /\ mustache.i[tr[k].pos + 1].instruction = "SECTION_START"
               /\ tr[k].ret = 2
               /\ tr[k + 1].cb = "mustache_on_section_start"
               /\ tr[k + 1].x = 0
               /\ tr[k + 2].cb = "mustache_on_text"
               /\ tr[k + 3].cb = "mustache_on_section_start"
               /\ tr[k + 3].x = 1
               /\ tr[k + 4].cb = "mustache_on_text"
               /\ Len(tr) = k + 4

\* whether the instruction at p is the opener of a section, plain or inverted
SectionOpenerAt(p) ==
    /\ mustache.i[p + 1].instruction \in {"SECTION_START", "SECTION_START_INV"}
    /\ mustache.i[p + 1].name_pos # 0

\* C7: in every callback that is handed a section, mustache_section_text
\* returns the section's inner source: the pointer is name_pos + offset of
\* the opener the section's frame started at, and the length its len.
SectionTextIsInnerSource ==
    \A t \in Threads :
        \A k \in 1..Len(builder[t].trace) :
            LET e == builder[t].trace[k]
                s == mustache.i[e.start + 1]
            IN  (e.cb \in HostCallbacks /\ e.frame >= 1 /\ SectionOpenerAt(e.start)) =>
                    /\ e.text.ptr = s.name_pos + s.offset
                    /\ e.text.len = s.len

\* the offset of the first pat in src at or after from, -1 without one
FirstMatch(src, from, pat) ==
    IF \E p \in from..(Len(src) - Len(pat)) : MatchAt(src, p, pat)
    THEN CHOOSE p \in from..(Len(src) - Len(pat)) :
            /\ MatchAt(src, p, pat)
            /\ \A r \in from..(p - 1) : ~MatchAt(src, r, pat)
    ELSE -1

\* a name without the white space around it
RECURSIVE Trimmed(_)
Trimmed(name) ==
    IF name = <<>> THEN name
    ELSE IF isspace(Head(name)) THEN Trimmed(Tail(name))
    ELSE IF isspace(name[Len(name)]) THEN Trimmed(SubSeq(name, 1, Len(name) - 1))
    ELSE name

\* the source src from offset from on, cut at its tags: each run of bytes
\* between tags as one on_text with the bytes of the run, each tag as one
\* on_arg with its trimmed name
RECURSIVE Pieces(_, _)
Pieces(src, from) ==
    LET o == FirstMatch(src, from, <<123, 123>>)
        c == FirstMatch(src, o + 2, <<125, 125>>)
        text(n) == IF n > 0
                   THEN << [cb |-> "mustache_on_text", bytes |-> Slice(src, from, n)] >>
                   ELSE <<>>
    IN  IF from >= Len(src) THEN <<>>
        ELSE IF o = -1 \/ c = -1 THEN text(Len(src) - from)
        ELSE text(o - from)
             \o << [cb |-> "mustache_on_arg",
                    bytes |-> Trimmed(Slice(src, o + 2, c - (o + 2)))] >>
             \o Pieces(src, c + 2)

\* whether every tag of src is a variable tag: no sigil follows an opening
\* delimiter, and every opening delimiter is closed
TextAndVariablesOnly(src) ==
    \A p \in 0..(Len(src) - 2) :
        MatchAt(src, p, <<123, 123>>) =>
            /\ ByteAt(src, p + 2) \notin {35, 94, 47, 62, 33, 61, 123, 38, 58, 60}
            /\ FirstMatch(src, p + 2, <<125, 125>>) # -1

\* what the calls of a trace delivered: for each call the callback and the
\* bytes it was given
Delivered(tr) ==
    [ k \in 1..Len(tr) |->
        [ cb |-> tr[k].cb,
          bytes |-> Slice(mustache.data, tr[k].name_pos, tr[k].name_len) ] ]

\* C10: the trace of a build that returned 0 on a template of text and
\* variable tags only is the source in order: one on_text per run of text
\* with all the bytes of the run, whatever its length, and one on_arg per
\* tag with its trimmed name.
TraceIsSource ==
    \A t \in Threads :
        (builder[t].st = "ok" /\ args.has_data /\ TextAndVariablesOnly(args.data)) =>
            Delivered(builder[t].trace) = Pieces(args.data, 0)

\* the image mustache_load returned
LoadedImage == [null |-> FALSE, i |-> loader.i, data |-> loader.data]

\* the host's answer recorded in entry k of a trace
AnswerAt(tr, k) ==
    IF k <= Len(tr) THEN Answer(tr[k].ret, tr[k].change, tr[k].sec)
    ELSE NoAnswer

\* whether an invocation in state b, run on image m with no other invocation
\* and given the answers recorded in the trace of target, gets to target
RECURSIVE RunsAloneTo(_, _, _)
RunsAloneTo(m, b, target) ==
    IF b = target THEN TRUE
    ELSE IF b.st # "run" \/ Len(b.trace) > Len(target.trace) THEN FALSE
    ELSE LET n     == Len(b.trace)
             first == b.pos < Len(m.i) /\ CallsFirst(m, b)
         IN  RunsAloneTo(m,
                 BuildStep(m, b, AnswerAt(target.trace, n + 1),
                           AnswerAt(target.trace, IF first THEN n + 2 ELSE n + 1)),
                 target)

Openers(i) ==
    { p \in 0..(Len(i) - 1) :
        i[p + 1].instruction \in {"SECTION_START", "SECTION_START_INV"} }

\* the indexes of its section closers
Closers(i) == { q \in 0..(Len(i) - 1) : i[q + 1].instruction = "SECTION_END" }

\* C11: in every image mustache_load returned, every section opener at p,
\* named or loader-injected, has data.end = q with q > p and a SECTION_END at
\* q, no two openers share a closer, every closer belongs to an opener, and
\* two sections are either disjoint or one inside the other.
SectionsWellNested ==
    pc = "loaded" =>
        LET i == mustache.i
            end(p) == i[p + 1].end
        IN  /\ \A p \in Openers(i) : end(p) > p /\ end(p) \in Closers(i)
            /\ \A p, r \in Openers(i) : p # r => end(p) # end(r)
            /\ \A q \in Closers(i) : \E p \in Openers(i) : end(p) = q
            /\ \A p, r \in Openers(i) :
                  (p < r /\ r < end(p)) => end(r) < end(p)

\* C11's case: an image in which a named section encloses the section the
\* loader injected for a partial, after a successful load
SectionsWellNestedWitness ==
    /\ pc = "loaded"
    /\ \E p, r \in Openers(mustache.i) :
          /\ mustache.i[p + 1].name_pos # 0
          /\ mustache.i[r + 1].name_pos = 0
          /\ p < r
          /\ mustache.i[r + 1].end < mustache.i[p + 1].end

\* the offset of the opening delimiter of the next tag of the template on top
\* of the parse stack, -1 when the rest of the template holds none
NextOpener(s) ==
    FirstMatch(SubSeq(s.data, 1, Top(s).data_end), Top(s).data_pos,
               Top(s).del_start)

\* the offset of the first byte inside that tag
NextBody(s) == NextOpener(s) + Len(Top(s).del_start)

\* the offset of the closing delimiter of that tag, -1 when the rest of the
\* template holds none
NextCloser(s) ==
    FirstMatch(SubSeq(s.data, 1, Top(s).data_end), NextBody(s), Top(s).del_end)

\* whether the loader is about to parse a tag with the sigil given
AtTag(s, sigil) ==
    /\ s.index > 0
    /\ Top(s).data_pos < Top(s).data_end
    /\ NextOpener(s) # -1
    /\ NextCloser(s) # -1
    /\ ByteAt(s.data, NextBody(s)) = sigil

\* the name of that tag: what follows the sigil, without the white space
\* around it
NextName(s) ==
    Trimmed(Slice(s.data, NextBody(s) + 1, NextCloser(s) - (NextBody(s) + 1)))

\* the openers no closer was matched to yet, the loader-injected ones of the
\* templates being parsed included
Unmatched(i) == { p \in Openers(i) : i[p + 1].end = 0 }

\* the nearest of them
NearestUnmatched(i) ==
    CHOOSE p \in Unmatched(i) : \A r \in Unmatched(i) : r <= p

\* the name an opener was given, empty for a loader-injected one
OpenerName(s, p) == Slice(s.data, s.i[p + 1].name_pos, s.i[p + 1].name_len)

\* whether the loader is about to meet a closer whose name is not the name of
\* the nearest unmatched opener, the end of a template with a section open,
\* or a tag that is not closed
MismatchAhead(s) ==
    /\ s.index > 0
    /\ \/ /\ AtTag(s, 47)
          /\ OpenerName(s, NearestUnmatched(s.i)) # NextName(s)
       \/ /\ Top(s).data_pos >= Top(s).data_end
          /\ s.i[NearestUnmatched(s.i) + 1].name_pos # 0
       \/ /\ Top(s).data_pos < Top(s).data_end
          /\ NextOpener(s) # -1
          /\ NextCloser(s) = -1

\* C12: when the closer the loader meets is not named as the nearest
\* unmatched opener, when a template ends with one of its sections open, and
\* when a tag is opened but not closed before the end of its template,
\* mustache_load reports MUSTACHE_ERR_CLOSURE_MISMATCH and returns NULL.
ClosureMismatchReported ==
    [][ (pc = "parse" /\ MismatchAhead(loader)) =>
            /\ pc' = "failed"
            /\ loader'.err = "MUSTACHE_ERR_CLOSURE_MISMATCH"
            /\ mustache' = NullImage ]_vars

\* C12's case: the load failed at the closer of the outer of two open
\* sections, met while the inner one was open
ClosureMismatchReportedWitness ==
    /\ pc = "failed"
    /\ loader.err = "MUSTACHE_ERR_CLOSURE_MISMATCH"
    /\ Cardinality({ p \in Unmatched(loader.i) :
                        loader.i[p + 1].name_pos # 0 }) = 2
    /\ Top(loader).data_pos < Top(loader).data_end

\* the index of the first white space byte of w, 0 without one
FirstSpace(w) ==
    IF \E k \in 1..Len(w) : isspace(w[k])
    THEN CHOOSE k \in 1..Len(w) :
            isspace(w[k]) /\ \A j \in 1..(k - 1) : ~isspace(w[j])
    ELSE 0

\* what the source src means from offset from on, read with the delimiters X
\* and Y: a run of bytes outside the tags is text; a tag is a comment, a
\* set-delimiters tag (the tags after it are read with its delimiters), a
\* section opener or closer, or a variable, escaped unless its sigil is '{'
\* or '&'; the '}' that follows the closing delimiter of a '{' tag belongs
\* to the tag when the closing delimiter begins and ends with '}'
RECURSIVE Reference(_, _, _, _)
Reference(src, from, X, Y) ==
    LET o     == FirstMatch(src, from, X)
        b     == o + Len(X)
        c     == FirstMatch(src, b, Y)
        body  == Slice(src, b, c - b)
        sigil == IF body = <<>> THEN 0 ELSE body[1]
        triple == /\ sigil = 123
                  /\ Y[1] = 125
                  /\ Y[Len(Y)] = 125
                  /\ ByteAt(src, c + Len(Y)) = 125
        next  == c + Len(Y) + (IF triple THEN 1 ELSE 0)
        inner == Trimmed(SubSeq(body, 2, Len(body) - 1))
        sp    == FirstSpace(inner)
        piece(kind, bytes, escape) ==
            << [kind |-> kind, bytes |-> bytes, escape |-> escape] >>
        text(n) == IF n > 0 THEN piece("text", Slice(src, from, n), 0) ELSE <<>>
    IN  IF from >= Len(src) THEN <<>>
        ELSE IF o = -1 \/ c = -1 THEN text(Len(src) - from)
        ELSE text(o - from) \o
             CASE sigil = 33 -> Reference(src, next, X, Y)
               [] sigil = 61 ->
                    Reference(src, next, SubSeq(inner, 1, sp - 1),
                              Trimmed(SubSeq(inner, sp + 1, Len(inner))))
               [] sigil = 35 ->
                    piece("section", Trimmed(Tail(body)), 0)
                        \o Reference(src, next, X, Y)
               [] sigil = 94 ->
                    piece("inverted", Trimmed(Tail(body)), 0)
                        \o Reference(src, next, X, Y)
               [] sigil = 47 ->
                    piece("end", Trimmed(Tail(body)), 0)
                        \o Reference(src, next, X, Y)
               [] sigil \in {123, 38} ->
                    piece("variable", Trimmed(Tail(body)), 0)
                        \o Reference(src, next, X, Y)
               [] sigil \in {58, 60} ->
                    piece("variable", Trimmed(Tail(body)), 1)
                        \o Reference(src, next, X, Y)
               [] OTHER ->
                    piece("variable", Trimmed(body), 1)
                        \o Reference(src, next, X, Y)

\* what instruction k (0 based) of image m says, in the same terms
Compiled(m, k) ==
    LET inst == m.i[k + 1]
        op   == inst.instruction
    IN  [ kind   |-> CASE op = "WRITE_TEXT" -> "text"
                       [] op \in {"WRITE_ARG", "WRITE_ARG_UNESCAPED"} -> "variable"
                       [] op = "SECTION_START" -> "section"
                       [] op = "SECTION_START_INV" -> "inverted"
                       [] op = "SECTION_END" -> "end"
                       [] OTHER -> "goto",
          bytes  |-> Slice(m.data, inst.name_pos, inst.name_len),
          escape |-> IF op = "WRITE_ARG" THEN 1 ELSE 0 ]

\* whether image m was compiled from the root template alone
NoPartial(m) ==
    \A k \in 1..(Len(m.i) - 2) :
        /\ m.i[k + 1].instruction # "SECTION_GOTO"
        /\ m.i[k + 1].instruction \in {"SECTION_START", "SECTION_END"} =>
              m.i[k + 1].name_pos # 0

\* whether src holds a set-delimiters tag of the default delimiters
SetsDelimiters(src) == FirstMatch(src, 0, <<123, 123, 61>>) # -1

\* C13: the image of a template with set-delimiters tags is the template read
\* with the delimiters of the last such tag before each tag: after {{=X Y=}}
\* the tags are the ones X opens and Y closes, and the former delimiters are
\* text, until the next set-delimiters tag or the end of the template.
DelimitersSwitch ==
    (pc = "loaded" /\ args.has_data /\ SetsDelimiters(args.data)
       /\ NoPartial(mustache)) =>
        [ k \in 1..(Len(mustache.i) - 2) |-> Compiled(mustache, k) ]
            = Reference(args.data, 0, <<123, 123>>, <<125, 125>>)

\* C13's case: A{{=<% %>=}}<%x%>B was loaded as the text A, the variable x
\* and the text B
DelimitersSwitchWitness ==
    /\ pc = "loaded"
    /\ args.has_data
    /\ args.data = Bytes(<<"A", "{", "{", "=", "<", "%", " ", "%", ">", "=",
                           "}", "}", "<", "%", "x", "%", ">", "B">>)
    /\ [ k \in 1..(Len(mustache.i) - 2) |-> Compiled(mustache, k) ]
          = << [kind |-> "text", bytes |-> << 65 >>, escape |-> 0],
               [kind |-> "variable", bytes |-> << 120 >>, escape |-> 1],
               [kind |-> "text", bytes |-> << 66 >>, escape |-> 0] >>

\* the bytes between the delimiters of the tag the loader is about to parse
NextTagBody(s) == Slice(s.data, NextBody(s), NextCloser(s) - NextBody(s))

\* the two words of a set-delimiters tag: what lies between its '=' signs,
\* cut at the first white space
DelimiterWords(body) ==
    LET inner == Trimmed(SubSeq(body, 2, Len(body) - 1))
        sp    == FirstSpace(inner)
    IN  IF sp = 0 THEN << inner, << >> >>
        ELSE << SubSeq(inner, 1, sp - 1),
                Trimmed(SubSeq(inner, sp + 1, Len(inner))) >>

\* every delimiter a parse frame holds fits its buffer of
\* MUSTACHE_DELIMITER_LENGTH_LIMIT bytes together with the NUL that ends it
DelimitersFitBuffer ==
    \A k \in 1..Len(loader.stack) :
        /\ Len(loader.stack[k].del_start) + 1 <= MUSTACHE_DELIMITER_LENGTH_LIMIT
        /\ Len(loader.stack[k].del_end) + 1 <= MUSTACHE_DELIMITER_LENGTH_LIMIT

\* what the loader does with the set-delimiters tag it is about to parse
DelimiterTagOutcome ==
    LET body  == NextTagBody(loader)
        words == DelimiterWords(body)
        fails(err) == /\ pc' = "failed"
                      /\ loader'.err = err
                      /\ mustache' = NullImage
    IN  IF body[Len(body)] # 61
        THEN fails("MUSTACHE_ERR_CLOSURE_MISMATCH")
        ELSE IF words[1] = << >> \/ words[2] = << >>
        THEN fails("MUSTACHE_ERR_CLOSURE_MISMATCH")
        ELSE IF Len(words[1]) > 10 \/ Len(words[2]) > 10
        THEN fails("MUSTACHE_ERR_DELIMITER_TOO_LONG")
        ELSE /\ pc' = "parse"
             /\ Top(loader').del_start = words[1]
             /\ Top(loader').del_end = words[2]

\* C14: a set-delimiters tag without its trailing '=' or with an empty first
\* or second delimiter fails with MUSTACHE_ERR_CLOSURE_MISMATCH; otherwise one
\* with a delimiter longer than 10 bytes fails with
\* MUSTACHE_ERR_DELIMITER_TOO_LONG and one of 10 bytes or fewer is installed;
\* no delimiter buffer ever holds more than its 11 bytes.
DelimiterLengthChecked ==
    /\ []DelimitersFitBuffer
    /\ [][ (pc = "parse" /\ AtTag(loader, 61)) => DelimiterTagOutcome ]_vars

\* a frame holds a delimiter of 10 bytes
DelimiterOfTenInstalled ==
    /\ pc = "parse"
    /\ loader.index = 1
    /\ Len(Top(loader).del_end) = 10

\* C14's case: a load that failed on a second delimiter of 11 bytes, after
\* the first one had been copied into the frame
DelimiterLengthCheckedWitness ==
    /\ pc = "failed"
    /\ loader.err = "MUSTACHE_ERR_DELIMITER_TOO_LONG"
    /\ Top(loader).del_start = << 97 >>

\* the delimiters of a parse frame
Delimiters(f) == << f.del_start, f.del_end >>

\* what one step of the loader does to the delimiters of the parse frames:
\* the frames under the top one keep theirs; a frame that is pushed starts
\* with {{ and }} and leaves the frame that pushed it as it was; the top
\* frame's change only at a set-delimiters tag of its template
DelimitersStep ==
    LET n == Len(loader.stack)
    IN  /\ \A k \in 1..(n - 1) :
              k <= Len(loader'.stack) =>
                  Delimiters(loader'.stack[k]) = Delimiters(loader.stack[k])
        /\ Len(loader'.stack) > n =>
              /\ Len(loader'.stack) = n + 1
              /\ Delimiters(loader'.stack[n + 1]) = << <<123, 123>>, <<125, 125>> >>
              /\ n >= 1 =>
                    Delimiters(loader'.stack[n]) = Delimiters(loader.stack[n])
        /\ ( /\ n >= 1
             /\ Len(loader'.stack) = n
             /\ Delimiters(loader'.stack[n]) # Delimiters(loader.stack[n]) ) =>
              AtTag(loader, 61)

\* C15: delimiters belong to one parse frame: a set-delimiters tag changes
\* those of the template being parsed only, every template pushed starts
\* with {{ and }}, and a template that included a partial finds its own
\* delimiters unchanged when the partial is done.
DelimitersScoped == [][DelimitersStep]_vars

\* C15's case: the root template switched to <% and %>, included a partial
\* whose {{y}} was read as a variable, and is back on top of the parse stack
\* with <% and %>
DelimitersScopedWitness ==
    /\ pc = "parse"
    /\ loader.index = 1
    /\ Delimiters(Top(loader)) = << <<60, 37>>, <<37, 62>> >>
    /\ \E k \in 1..Len(loader.i) :
          /\ loader.i[k].instruction = "WRITE_ARG"
          /\ Slice(loader.data, loader.i[k].name_pos, loader.i[k].name_len)
                = << 121 >>

\* what the calls of a trace deliver, in the terms of Reference: the kind of
\* each call, the bytes it was given and, for a variable, its escape flag
DeliveredPieces(tr) ==
    [ k \in 1..Len(tr) |->
        [ kind   |-> IF tr[k].cb = "mustache_on_text" THEN "text" ELSE "variable",
          bytes  |-> Slice(mustache.data, tr[k].name_pos, tr[k].name_len),
          escape |-> tr[k].x ] ]

\* whether src, read with the default delimiters, holds text, comments and
\* variable tags only
TextAndVariables(src) ==
    LET ref == Reference(src, 0, <<123, 123>>, <<125, 125>>)
    IN  \A k \in 1..Len(ref) : ref[k].kind \in {"text", "variable"}

\* C16: a build that returned 0 on a template of text and variable tags
\* calls on_arg once per tag with the tag's name, with escape == 0 for {{{x}}}
\* and for {{&x}} (both compiled to WRITE_ARG_UNESCAPED) and escape == 1 for
\* every other variable tag, and the text delivered after {{{x}}} starts
\* after its third '}'.
UnescapedTagsAlike ==
    \A t \in Threads :
        ( /\ builder[t].st = "ok"
          /\ args.has_data
          /\ NoPartial(mustache)
          /\ TextAndVariables(args.data) ) =>
            /\ DeliveredPieces(builder[t].trace)
                  = Reference(args.data, 0, <<123, 123>>, <<125, 125>>)
            /\ \A k \in 1..Len(builder[t].trace) :
                  LET e == builder[t].trace[k]
                  IN  e.cb = "mustache_on_arg" =>
                         ( mustache.i[e.pos + 1].instruction
                              = "WRITE_ARG_UNESCAPED" ) = (e.x = 0)

\* C16's case: the build of {{{x}}}y{{&x}}y{{x}} returned 0 after on_arg of x
\* with escape 0, on_text of y, on_arg of x with escape 0, on_text of y and
\* on_arg of x with escape 1
UnescapedTagsAlikeWitness ==
    /\ builder[1].st = "ok"
    /\ DeliveredPieces(builder[1].trace)
          = << [kind |-> "variable", bytes |-> << 120 >>, escape |-> 0],
               [kind |-> "text", bytes |-> << 121 >>, escape |-> 0],
               [kind |-> "variable", bytes |-> << 120 >>, escape |-> 0],
               [kind |-> "text", bytes |-> << 121 >>, escape |-> 0],
               [kind |-> "variable", bytes |-> << 120 >>, escape |-> 1] >>

\* the offsets at which mustache__load_data wrote a sub-header: the first
\* one at 0, each next one where the blob ended when the one before it was
\* loaded, which is what that one's next field was given
RECURSIVE SubHeaders(_, _)
SubHeaders(data, p) ==
    IF p < Len(data)
    THEN LET next == mustache__data_segment_read(data, p).next
         IN  IF next > p THEN << p >> \o SubHeaders(data, next) ELSE << p >>
    ELSE << >>

\* the walk of mustache__file_is_loaded for a name no template has: the
\* offsets it reads a sub-header at, then the offset it stops at, -1 when it
\* never stops
RECURSIVE ChainWalk(_, _)
ChainWalk(data, p) ==
    IF p < Len(data)
    THEN LET next == mustache__data_segment_read(data, p).next
         IN  IF next = 0 THEN << p, -1 >>
             ELSE << p >> \o ChainWalk(data, p + next)
    ELSE << p >>

\* the path the partial tag the loader is about to parse resolves to, << -1 >>
\* when no file is found
ResolvedPath(s) == PathWalk(s, NextName(s), s.index, 0, << >>)

\* the sub-header offsets of the templates in the blob stored under name
StoredAs(data, name) ==
    { k \in 1..Len(SubHeaders(data, 0)) :
        mustache__data_segment_read(data, SubHeaders(data, 0)[k]).filename = name }

\* the instructions a step of the loader added
Added == SubSeq(loader'.i, Len(loader.i) + 1, Len(loader'.i))

\* the step added one SECTION_GOTO to target, after the text before the tag
\* if there is any, and loaded nothing
AddedGotoOnly(target) ==
    /\ pc' = "parse"
    /\ SubSeq(loader'.i, 1, Len(loader.i)) = loader.i
    /\ Len(Added) \in {1, 2}
    /\ Len(Added) = 2 => Added[1].instruction = "WRITE_TEXT"
    /\ Added[Len(Added)].instruction = "SECTION_GOTO"
    /\ Added[Len(Added)].len = target
    /\ loader'.data = loader.data
    /\ loader'.stack = [loader.stack EXCEPT ![loader.index].data_pos =
                            NextCloser(loader) + Len(Top(loader).del_end)]

\* C17: a partial tag whose resolved path is the stored name of a template
\* in the blob, however many templates the blob holds, adds one SECTION_GOTO
\* whose len is that template's inst_start, appends nothing to the blob and
\* pushes no parse frame.
LoadedPartialIsGoto ==
    [][ ( /\ pc = "parse"
          /\ AtTag(loader, 62)
          /\ StoredAs(loader.data, ResolvedPath(loader)) # {} ) =>
            \E k \in StoredAs(loader.data, ResolvedPath(loader)) :
                AddedGotoOnly(mustache__data_segment_read(
                    loader.data, SubHeaders(loader.data, 0)[k]).inst_start)
      ]_vars

\* C20: whatever was loaded, the walk over the next fields from offset 0
\* reads the sub-header of every template once, in load order, and nothing
\* else, and stops at the length of the blob.
ChainWalkCoversBlob ==
    pc \in {"parse", "loaded"} =>
        LET walk == ChainWalk(loader.data, 0)
        IN  /\ SubSeq(walk, 1, Len(walk) - 1) = SubHeaders(loader.data, 0)
            /\ walk[Len(walk)] = Len(loader.data)

\* each load appends its sub-header where the blob ended
SubHeadersAreLoads ==
    [][ /\ Len(loader'.data) > Len(loader.data) =>
              SubHeaders(loader'.data, 0)
                 = Append(SubHeaders(loader.data, 0), Len(loader.data))
        /\ Len(loader'.data) = Len(loader.data) =>
              SubHeaders(loader'.data, 0) = SubHeaders(loader.data, 0) ]_vars

\* the directory prefix of the template parse frame k is parsing
FramePrefix(s, k) ==
    LET seg == mustache__data_segment_read(s.data, s.stack[k].data_start)
    IN  SubSeq(seg.filename, 1, seg.path_len)

\* the paths at which name is to be looked for from the top parse frame, in
\* order: for each frame from the top one to the root, the frame's directory
\* followed by name, then the same followed by .mustache
Candidates(s, name) ==
    [ j \in 1..(2 * s.index) |->
        FramePrefix(s, s.index - ((j - 1) \div 2)) \o name
          \o (IF j % 2 = 1 THEN << >>
              ELSE Bytes(<<".", "m", "u", "s", "t", "a", "c", "h", "e">>)) ]

\* the indexes of the candidates that are regular files
Existing(s, name) ==
    { j \in 1..(2 * s.index) : Candidates(s, name)[j] \in DOMAIN Files }

\* the first of them
FirstExisting(s, name) ==
    Candidates(s, name)[CHOOSE j \in Existing(s, name) :
                            \A r \in Existing(s, name) : j <= r]

\* the load failed with the error given and returns NULL
LoadFails(err) ==
    /\ pc' = "failed"
    /\ loader'.err = err
    /\ mustache' = NullImage

\* C18: when no candidate path of a partial's name is a regular file, a name
\* equal to the registered name of the root template adds one SECTION_GOTO
\* with len 0 and loads nothing, and any other name fails the load with
\* MUSTACHE_ERR_FILE_NOT_FOUND.
MissingFileIsRootOrError ==
    [][ ( /\ pc = "parse"
          /\ AtTag(loader, 62)
          /\ NextName(loader) # << >>
          /\ Existing(loader, NextName(loader)) = {} ) =>
            IF NextName(loader)
                  = mustache__data_segment_read(loader.data, 0).filename
            THEN AddedGotoOnly(0)
            ELSE LoadFails("MUSTACHE_ERR_FILE_NOT_FOUND") ]_vars

\* C18's case: the root template r, given as data, holds the text x and a
\* partial tag of its own name: the tag was compiled to a jump to
\* instruction 0 and the blob holds the root alone
MissingFileIsRootOrErrorWitness ==
    /\ pc = "parse"
    /\ loader.index = 1
    /\ Len(loader.i) = 3
    /\ loader.i[3].instruction = "SECTION_GOTO"
    /\ loader.i[3].len = 0
    /\ SubHeaders(loader.data, 0) = << 0 >>

\* C19: a partial's name is looked for in the directory of each parse frame
\* from the top one to the root, as name and then as name.mustache; the
\* first candidate that is a regular file is the template loaded or jumped
\* to, and MUSTACHE_ERR_FILE_NOT_FOUND is not reported while a candidate
\* exists in the directory of any frame.
FirstCandidateWins ==
    [][ ( /\ pc = "parse"
          /\ AtTag(loader, 62)
          /\ NextName(loader) # << >>
          /\ Existing(loader, NextName(loader)) # {} ) =>
            LET path == FirstExisting(loader, NextName(loader))
            IN  /\ pc' = "parse"
                /\ \/ /\ Len(loader'.data) > Len(loader.data)
                      /\ mustache__data_segment_read(
                             loader'.data, Len(loader.data)).filename = path
                   \/ \E k \in StoredAs(loader.data, path) :
                         AddedGotoOnly(mustache__data_segment_read(
                             loader.data, SubHeaders(loader.data, 0)[k]).inst_start)
      ]_vars

(***************************************************************************)
(* The sub-header alone: a sub-header is written to an empty blob and read *)
(* back.  Here args is the sub-header handed to                            *)
(* mustache__data_segment_write, loader.data the bytes it wrote and        *)
(* mustache the sub-header mustache__data_segment_read returned.           *)
(***************************************************************************)
\* values of the 32 bit fields: below, at and above 2^8 and 2^11
SegmentOffsets == { 0, 5, 255, 256, 2047, 2048, 70000 }

\* values of filename_len with a path_len each: below, at and above 2^9
SegmentLengths == { << 0, 0 >>, << 1, 0 >>, << 3, 2 >>, << 511, 300 >>,
                    << 512, 0 >>, << 600, 512 >> }

SegmentArgs ==
    { [ filename     |-> [k \in 1..len[1] |-> Asc("a")],
        inst_start   |-> inst_start,
        next         |-> next,
        filename_len |-> len[1],
        path_len     |-> len[2] ] :
          inst_start \in SegmentOffsets, next \in SegmentOffsets,
          len \in SegmentLengths }

InitSegment ==
    /\ args \in SegmentArgs
    /\ pc = "segment"
    /\ loader = LoaderInit("unset")
    /\ mustache = NullImage
    /\ builder = [t \in Threads |-> Idle]

\* mustache__data_segment_write(s->data, args)
SegmentWrite ==
    /\ pc = "segment"
    /\ loader' = [loader EXCEPT !.data = mustache__data_segment_write(args),
                                !.has_data = TRUE]
    /\ pc' = "written"
    /\ UNCHANGED << args, mustache, builder >>

\* mustache__data_segment_read(s->data)
SegmentRead ==
    /\ pc = "written"
    /\ mustache' = mustache__data_segment_read(loader.data, 0)
    /\ pc' = "read"
    /\ UNCHANGED << args, loader, builder >>

NextSegment == SegmentWrite \/ SegmentRead

SpecSegment == InitSegment /\ [][NextSegment]_vars

\* C21: the sub-header read from the bytes written for a sub-header is that
\* sub-header: the same inst_start, next, filename_len and path_len and the
\* same filename bytes.
SegmentRoundTrips ==
    pc = "read" =>
        /\ mustache.inst_start = args.inst_start
        /\ mustache.next = args.next
        /\ mustache.filename_len = args.filename_len
        /\ mustache.path_len = args.path_len
        /\ mustache.filename = args.filename

\* root templates whose tags have an empty name, a name of white space and a
\* name with white space around it
NameTemplates ==
    { <<"{", "{", " ", "}", "}">>,
      <<"{", "{", "}", "}">>,
      <<"{", "{", "#", " ", " ", "}", "}">>,
      <<"{", "{", " ", "x", " ", "}", "}", "y">>,
      <<"{", "{", "#", " ", "a", " ", "}", "}", "x", "{", "{", "/", "a",
        "}", "}">>,
      <<"{", "{", ">", "p", "}", "}", "{", "{", " ", "y", "}", "}">>,
      <<"{", "{", "&", " ", "}", "}", "x">> }

\* n bytes 'a'
LongName(n) == [k \in 1..n |-> Asc("a")]

\* root templates with a tag whose name has 2^16 bytes, one less and one
\* more: a variable, and a section closed under the name a
LongNameTemplates ==
    { Bytes(<<"{", "{">>) \o LongName(n) \o Bytes(<<"}", "}">>) :
          n \in { UINT16_MOD - 1, UINT16_MOD } }
    \cup { Bytes(<<"{", "{", "^">>) \o LongName(UINT16_MOD + 1)
             \o Bytes(<<"}", "}", "x", "{", "{", "/", "a", "}", "}">>) }

\* root templates whose partial tag has no name, a name of white space, a
\* name of FILE_NAME_LIMIT bytes and of one less, and the name of the file
\* of 2^31 - 1 bytes
FileNameTemplates ==
    { Bytes(<<"{", "{", ">", "}", "}">>),
      Bytes(<<"{", "{", ">", " ", "}", "}">>),
      Bytes(<<"x", "{", "{", ">", "A", "}", "}">>) }
    \cup { Bytes(<<"{", "{", ">">>) \o LongName(n) \o Bytes(<<"}", "}">>) :
              n \in { FILE_NAME_LIMIT - 1, FILE_NAME_LIMIT } }

\* the same names as the file name of the root template
FileNameRoots ==
    { [filename |-> n, has_data |-> FALSE, data |-> << >>] :
          n \in { << >>, Bytes(<<"A">>), Bytes(<<"p">>),
                  LongName(FILE_NAME_LIMIT - 1), LongName(FILE_NAME_LIMIT) } }

\* a root template with a section opener UINT16_MOD - 1 bytes into it
FarTagTemplates ==
    { [k \in 1..(UINT16_MOD - 1) |-> Asc("x")]
          \o Bytes(<<"{", "{", "#", "a", "}", "}", "{", "{", "/", "a", "}", "}">>) }

NameArgs ==
    { VirtualRoot(cs) : cs \in NameTemplates }
    \cup { [filename |-> Bytes(<<"r">>), has_data |-> TRUE, data |-> d] :
              d \in LongNameTemplates \cup FileNameTemplates
                      \cup FarTagTemplates }
    \cup FileNameRoots

InitNames ==
    /\ args \in NameArgs
    /\ pc = "start"
    /\ loader = LoaderInit("unset")
    /\ mustache = NullImage
    /\ builder = [t \in Threads |-> Idle]

\* the load and build of the templates with these names
SpecNames == InitNames /\ [][Next]_vars

\* whether instruction k (0 based) of image m carries a name: text, a
\* variable, or a section opener or closer that a tag stands for
CarriesName(m, k) ==
    \/ m.i[k + 1].instruction \in {"WRITE_TEXT", "WRITE_ARG", "WRITE_ARG_UNESCAPED"}
    \/ /\ m.i[k + 1].instruction
             \in {"SECTION_START", "SECTION_START_INV", "SECTION_END"}
       /\ m.i[k + 1].name_pos # 0

\* the source bytes of the j-th template of the blob: [from, to)
SourceRegion(data, j) ==
    LET hs == SubHeaders(data, 0)
    IN  [ from |-> hs[j] + mustache__data_segment_length(
                       mustache__data_segment_read(data, hs[j]).filename_len),
          to   |-> IF j < Len(hs) THEN hs[j + 1] ELSE Len(data) ]

\* C22: in every image returned, the name of each text, variable and named
\* section instruction lies inside the source bytes of one template, and in
\* an image of the root template alone the names are the bodies of the tags
\* without sigil and surrounding white space, empty for a tag of white space.
NamesAreTagBodies ==
    pc = "loaded" =>
        /\ \A k \in 0..(Len(mustache.i) - 1) :
              CarriesName(mustache, k) =>
                  \E j \in 1..Len(SubHeaders(mustache.data, 0)) :
                      /\ SourceRegion(mustache.data, j).from
                            <= mustache.i[k + 1].name_pos
                      /\ mustache.i[k + 1].name_pos + mustache.i[k + 1].name_len
                            <= SourceRegion(mustache.data, j).to
        /\ (args.has_data /\ NoPartial(mustache)) =>
              [ k \in 1..(Len(mustache.i) - 2) |-> Compiled(mustache, k) ]
                  = Reference(args.data, 0, <<123, 123>>, <<125, 125>>)

\* the name of the first tag of src under the default delimiters: its body
\* without sigil and surrounding white space; empty without a tag
FirstTagName(src) ==
    LET o    == FirstMatch(src, 0, <<123, 123>>)
        c    == IF o = -1 THEN -1 ELSE FirstMatch(src, o + 2, <<125, 125>>)
        body == Slice(src, o + 2, c - (o + 2))
    IN  IF o = -1 \/ c = -1 \/ body = <<>> THEN <<>>
        ELSE IF body[1] \in {35, 94, 47, 62, 38, 58, 60, 123}
        THEN Trimmed(SubSeq(body, 2, Len(body)))
        ELSE Trimmed(body)

\* C23: a template whose tag has a name of 2^16 bytes or more is refused:
\* the load fails with MUSTACHE_ERR_NAME_TOO_LONG and returns no image, so no
\* image holds a name_len or offset cut to 16 bits.
LongNameRefused ==
    ( /\ args.has_data
      /\ Len(FirstTagName(args.data)) >= UINT16_MOD
      /\ pc \in {"loaded", "failed"} ) =>
        /\ pc = "failed"
        /\ loader.err = "MUSTACHE_ERR_NAME_TOO_LONG"
        /\ mustache = NullImage

\* root templates that include a template twice, the second time after a
\* third template was loaded, and one that includes itself
GotoTemplates ==
    { <<"{", "{", ">", "p", "}", "}", "{", "{", ">", "B", "}", "}", "{",
        "{", ">", "B", "}", "}">>,
      <<"{", "{", ">", "p", "}", "}", "{", "{", ">", "p", "}", "}">>,
      <<"{", "{", ">", "B", "}", "}", "{", "{", ">", "B", "}", "}">>,
      <<"x", "{", "{", ">", "r", "}", "}">>,
      <<"{", "{", ">", "p", "}", "}", "{", "{", ">", "d", "/", "u", "}",
        "}", "{", "{", ">", "p", "}", "}">> }

GotoArgs ==
    { VirtualRoot(cs) : cs \in GotoTemplates } \cup { FileRoot(<<"q">>) }

InitGoto ==
    /\ args \in GotoArgs
    /\ pc = "start"
    /\ loader = LoaderInit("unset")
    /\ mustache = NullImage
    /\ builder = [t \in Threads |-> Idle]

\* the load and build of the templates that include a template again
SpecGoto == InitGoto /\ [][Next]_vars


\* the instruction the loader injects where a template starts
PseudoStart == Instruction("SECTION_START", 0, 0, 0, 0, 0)

\* the (0 based) indices of the SECTION_GOTO instructions of the vector i
Gotos(i) == { k \in 0..(Len(i) - 1) : i[k + 1].instruction = "SECTION_GOTO" }

\* whether the SECTION_GOTO at index g of the vector i holds its own index
\* and the index of an injected SECTION_START that the blob data names as
\* the first instruction of a template
GotoOpensTemplate(i, data, g) ==
    /\ i[g + 1].end = g
    /\ i[g + 1].len \in 0..(Len(i) - 1)
    /\ [ i[i[g + 1].len + 1] EXCEPT !.end = 0 ] = PseudoStart
    /\ \E j \in 1..Len(SubHeaders(data, 0)) :
          mustache__data_segment_read(data, SubHeaders(data, 0)[j]).inst_start
              = i[g + 1].len

\* whether the template whose first instruction is at index target is stored
\* as name: the resolved path, or the registered name of the root
TemplateAt(data, target, name) ==
    \E j \in 1..Len(SubHeaders(data, 0)) :
        LET seg == mustache__data_segment_read(data, SubHeaders(data, 0)[j])
        IN  seg.inst_start = target /\ seg.filename = name

\* C24: every SECTION_GOTO of an image holds its own index in end and in len
\* the index of the injected SECTION_START (name_pos 0, name_len 0) of a
\* template, and the SECTION_GOTO a partial tag adds leads to the template
\* the tag resolved to.
GotoOpensResolvedTemplate ==
    /\ [] ( pc \in {"parse", "loaded"} =>
              \A g \in Gotos(loader.i) :
                  GotoOpensTemplate(loader.i, loader.data, g) )
    /\ [][ ( /\ pc = "parse"
             /\ pc' = "parse"
             /\ AtTag(loader, 62)
             /\ Len(Added) > 0
             /\ Added[Len(Added)].instruction = "SECTION_GOTO" ) =>
               TemplateAt(loader.data, Added[Len(Added)].len,
                          IF ResolvedPath(loader) = << -1 >>
                          THEN NextName(loader)
                          ELSE ResolvedPath(loader))
         ]_vars

\* the template name the loader is about to resolve: the file name of the
\* root, or the name of the partial tag it is about to parse; << -1 >> when
\* it is about to do something else
NameToResolve ==
    IF pc = "start" /\ ~args.has_data THEN args.filename
    ELSE IF pc = "parse" /\ AtTag(loader, 62) THEN NextName(loader)
    ELSE << -1 >>

\* the file that name resolves to, << -1 >> without one
FileToLoad ==
    IF pc = "start"
    THEN PathWalk(LoaderInit("unset"), NameToResolve, 0, 0, << >>)
    ELSE ResolvedPath(loader)

\* C25: an empty template name fails the load with
\* MUSTACHE_ERR_FILE_NAME_TOO_SHORT, a name of 8192 bytes or more with
\* MUSTACHE_ERR_FILE_NAME_TOO_LONG and no shorter one does, and a resolved
\* file fails it with MUSTACHE_ERR_FILE_TOO_BIG exactly when it has more than
\* 2^31 - 1 bytes; each failure returns NULL and loads nothing.
FileNamesValidated ==
    [][ NameToResolve # << -1 >> =>
          /\ NameToResolve = << >> =>
                LoadFails("MUSTACHE_ERR_FILE_NAME_TOO_SHORT")
          /\ Len(NameToResolve) >= FILE_NAME_LIMIT =>
                LoadFails("MUSTACHE_ERR_FILE_NAME_TOO_LONG")
          /\ Len(NameToResolve) \in 1..(FILE_NAME_LIMIT - 1) =>
                /\ loader'.err \notin { "MUSTACHE_ERR_FILE_NAME_TOO_SHORT",
                                        "MUSTACHE_ERR_FILE_NAME_TOO_LONG" }
                /\ FileToLoad # << -1 >> =>
                      ( LoadFails("MUSTACHE_ERR_FILE_TOO_BIG")
                          <=> Files[FileToLoad].size > INT32_MAX )
          /\ pc' = "failed" => loader'.data = loader.data
      ]_vars

\* n openers of a section a, one inside the other
RECURSIVE Openings(_)
Openings(n) ==
    IF n = 0 THEN << >>
    ELSE Bytes(<<"{", "{", "#", "a", "}", "}">>) \o Openings(n - 1)

\* root templates that open MUSTACHE_NESTING_LIMIT sections and one less,
\* one whose third template includes itself, and one that loads
DeepArgs ==
    { [filename |-> Bytes(<<"r">>), has_data |-> TRUE, data |-> d] :
          d \in { Openings(MUSTACHE_NESTING_LIMIT),
                  Openings(MUSTACHE_NESTING_LIMIT - 1),
                  Bytes(<<"{", "{", ">", "p", "}", "}", "{", "{", ">", "y", "}", "}">>),
                  Bytes(<<"{", "{", "#", "a", "}", "}", "x",
                          "{", "{", "/", "a", "}", "}">>) } }

InitDeep ==
    /\ args \in DeepArgs
    /\ pc = "start"
    /\ loader = LoaderInit("unset")
    /\ mustache = NullImage
    /\ builder = [t \in Threads |-> Idle]

\* the load of the templates that nest to the limit
SpecDeep == InitDeep /\ [][Next]_vars

PartialsTooDeep ==
    /\ pc = "failed"
    /\ loader.err = "MUSTACHE_ERR_TOO_DEEP"
    /\ Len(loader.stack) = MUSTACHE_NESTING_LIMIT - 1

\* root templates that include themselves, bare and inside a section, and
\* templates that run a partial twice, the second time inside a section
RecurTemplates ==
    { <<"{", "{", ">", "p", "}", "}", "{", "{", ">", "p", "}", "}", "{",
        "{", ">", "p", "}", "}">>,
      <<"{", "{", ">", "r", "}", "}">>,
      <<"{", "{", "#", "a", "}", "}", "{", "{", ">", "r", "}", "}", "{",
        "{", "/", "a", "}", "}">>,
      <<"{", "{", "^", "a", "}", "}", "{", "{", ">", "r", "}", "}", "{",
        "{", "/", "a", "}", "}">>,
      <<"{", "{", "#", "a", "}", "}", "x", "{", "{", "/", "a", "}", "}",
        "{", "{", ">", "p", "}", "}", "{", "{", ">", "p", "}", "}">>,
      <<"{", "{", ">", "p", "}", "}", "{", "{", "#", "a", "}", "}", "{",
        "{", ">", "p", "}", "}", "{", "{", "/", "a", "}", "}">> }

RecurArgs ==
    { VirtualRoot(cs) : cs \in RecurTemplates } \cup { FileRoot(<<"q">>) }

InitRecur ==
    /\ args \in RecurArgs
    /\ pc = "start"
    /\ loader = LoaderInit("unset")
    /\ mustache = NullImage
    /\ builder = [t \in Threads |-> Idle]

\* whether thread t can make a pass of the loop of mustache_build: what
\* ENABLED <<Build(t)>>_vars comes to, as every pass changes the build
CanBuild(t) ==
    /\ pc = "loaded"
    /\ builder[t].st = "run"
    /\ Len(builder[t].trace) + 2 <= MaxTrace

\* weak fairness of Build(t), WF_vars(Build(t)) with ENABLED written out: the
\* callbacks return, so a build that can make a pass of its loop makes it
BuildIsFair(t) == []<>(~CanBuild(t)) \/ []<><<Build(t)>>_vars

\* the load and the builds of these templates under that fairness
SpecRecur ==
    InitRecur /\ [][Next]_vars /\ \A t \in Threads : BuildIsFair(t)

\* the instruction frame j of build b is at: the build's position for the
\* top frame, and for a frame below the instruction that pushed the frame
\* above, a SECTION_GOTO or the opener of a section
PosAt(m, b, j) ==
    IF j = b.index THEN b.pos
    ELSE LET f == StackAt(b, j + 1)
         IN  IF m.i[f.end + 1].instruction = "SECTION_GOTO" THEN f.end
             ELSE f.start

\* what is left to do in each frame of build b, from frame 0 up: the
\* iterations left and the instructions left up to the end of the image
Rank(m, b) ==
    [ j \in 1..(b.index + 1) |->
        [ rem  |-> b.stack[j].count - b.stack[j].index,
          left |-> Len(m.i) - PosAt(m, b, j - 1) ] ]

\* the order of the ranks: at the first frame where they differ less is
\* left, or all frames are the same and there is one frame more
RankLess(new, old) ==
    \E j \in 1..Len(new) :
        /\ \A k \in 1..(j - 1) : k <= Len(old) /\ new[k] = old[k]
        /\ \/ j > Len(old)
           \/ ULess(new[j].rem, old[j].rem)
           \/ new[j].rem = old[j].rem /\ new[j].left < old[j].left

\* whether the root template includes itself outside any section
IncludesItself == args = VirtualRoot(<<"{", "{", ">", "r", "}", "}">>)

\* C27: mustache_build terminates: every pass of its loop that does not leave
\* it lowers the rank of the build, an order without infinite descent as the
\* stack has less than MUSTACHE_NESTING_LIMIT frames, so a build that runs
\* ends (here: or uses up the calls the trace can hold); the build of a
\* template that includes itself outside any section returns -1 with
\* MUSTACHE_ERR_TOO_DEEP.
BuildTerminates ==
    /\ [] ( \A t \in Threads :
              builder[t].st = "run" =>
                  /\ builder[t].index < MUSTACHE_NESTING_LIMIT
                  /\ \A j \in 1..(builder[t].index + 1) :
                        /\ Rank(mustache, builder[t])[j].left >= 0
                        /\ UAtLeast(builder[t].stack[j].count,
                                    builder[t].stack[j].index) )
    /\ [] ( \A t \in Threads :
              CanBuild(t) =>
                  \A h1 \in Answers("mustache_on_section_test", 1),
                     h2 \in Answers("mustache_on_section_start", 1) :
                      BuildStep(mustache, builder[t], h1, h2) # builder[t] )
    /\ [][ \A t \in Threads :
             ( /\ builder[t].st = "run"
               /\ builder'[t].st = "run"
               /\ builder'[t] # builder[t] ) =>
                 RankLess(Rank(mustache', builder'[t]), Rank(mustache, builder[t]))
         ]_vars
    /\ [] ( \A t \in Threads :
              (IncludesItself /\ builder[t].st \notin {"idle", "run"}) =>
                  /\ builder[t].st = "fail"
                  /\ builder[t].ret = -1
                  /\ builder[t].err = "MUSTACHE_ERR_TOO_DEEP" )
    /\ \A t \in Threads :
          (builder[t].st = "run")
              ~> (builder[t].st # "run" \/ Len(builder[t].trace) + 2 > MaxTrace)

\* the build of the template that includes itself outside any section ended
\* with MUSTACHE_ERR_TOO_DEEP
BuildTerminatesWitness ==
    /\ IncludesItself
    /\ builder[1].st = "fail"
    /\ builder[1].err = "MUSTACHE_ERR_TOO_DEEP"
    /\ builder[1].ret = -1

\* the build of a template that includes itself inside a section ended when
\* the test of that section returned 0, two levels deep
GuardEndsRecursion ==
    /\ args = VirtualRoot(<<"{", "{", "#", "a", "}", "}", "{", "{", ">", "r", "}", "}",
                            "{", "{", "/", "a", "}", "}">>)
    /\ builder[1].st = "ok"
    /\ Len(builder[1].trace) >= 3
    /\ builder[1].trace[Len(builder[1].trace)].cb = "mustache_on_section_test"
    /\ builder[1].trace[Len(builder[1].trace)].ret = 0

\* whether frame f of a build of image m was pushed by a SECTION_GOTO
GotoFrame(m, f) == m.i[f.end + 1].instruction = "SECTION_GOTO"

\* whether build b is at an instruction of the kind op, in its loop
BuildAt(m, b, op) ==
    /\ b.st = "run"
    /\ b.pos < Len(m.i)
    /\ m.i[b.pos + 1].instruction = op

\* C28: a SECTION_GOTO pushes one frame for one iteration of the template at
\* len, which starts at once with the udata of the frame under it and without
\* a callback; while that frame is on the stack the frame is inside that
\* template, in its only iteration; the SECTION_END that ends the template
\* pops the frame and the build goes on after the SECTION_GOTO, the stack as
\* it was before.
GotoRunsTemplateOnce ==
    /\ [][ \A t \in Threads :
             ( /\ BuildAt(mustache, builder[t], "SECTION_GOTO")
               /\ ~TooDeep(builder[t])
               /\ builder'[t] # builder[t] ) =>
                 /\ builder'[t].st = "run"
                 /\ builder'[t].index = builder[t].index + 1
                 /\ builder'[t].pos = mustache.i[builder[t].pos + 1].len + 1
                 /\ builder'[t].stack = Append(builder[t].stack,
                       [ sec   |-> StackAt(builder[t], builder[t].index).sec,
                         start |-> mustache.i[builder[t].pos + 1].len,
                         end   |-> builder[t].pos,
                         index |-> 1, count |-> 1,
                         frame |-> builder[t].index + 1 ])
                 /\ builder'[t].trace = builder[t].trace
         ]_vars
    /\ [] ( \A t \in Threads :
              builder[t].st = "run" =>
                  \A j \in 1..builder[t].index :
                      GotoFrame(mustache, StackAt(builder[t], j)) =>
                          /\ StackAt(builder[t], j).count = 1
                          /\ StackAt(builder[t], j).index = 1
                          /\ PosAt(mustache, builder[t], j)
                                > StackAt(builder[t], j).start
                          /\ PosAt(mustache, builder[t], j)
                                <= mustache.i[StackAt(builder[t], j).start + 1].end )
    /\ [][ \A t \in Threads :
             ( /\ BuildAt(mustache, builder[t], "SECTION_END")
               /\ builder[t].index >= 1
               /\ GotoFrame(mustache, StackAt(builder[t], builder[t].index))
               /\ builder'[t] # builder[t] ) =>
                 /\ builder[t].pos
                       = mustache.i[StackAt(builder[t], builder[t].index).start + 1].end
                 /\ builder'[t].st = "run"
                 /\ builder'[t].pos
                       = StackAt(builder[t], builder[t].index).end + 1
                 /\ builder'[t].index = builder[t].index - 1
                 /\ builder'[t].stack
                       = SubSeq(builder[t].stack, 1, builder[t].index)
                 /\ builder'[t].trace = builder[t].trace
         ]_vars

\* the text calls of a trace
TextCalls(trace) ==
    { k \in 1..Len(trace) : trace[k].cb = "mustache_on_text" }

\* a build returned 0 after it ran template p three times: at its first
\* inclusion and in both iterations of the section around the SECTION_GOTO
GotoRunsTemplateOnceWitness ==
    /\ args = VirtualRoot(<<"{", "{", ">", "p", "}", "}", "{", "{", "#", "a", "}", "}",
                            "{", "{", ">", "p", "}", "}", "{", "{", "/", "a", "}", "}">>)
    /\ builder[1].st = "ok"
    /\ Cardinality(TextCalls(builder[1].trace)) = 3

\* a build returned 0 after it ran template p from two SECTION_GOTO
GotoFromTwoTags ==
    /\ args = VirtualRoot(<<"{", "{", ">", "p", "}", "}", "{", "{", ">", "p", "}", "}",
                            "{", "{", ">", "p", "}", "}">>)
    /\ builder[1].st = "ok"
    /\ Cardinality(TextCalls(builder[1].trace)) = 3

\* the calls a step added to the trace of thread t
AddedCalls(t) ==
    SubSeq(builder'[t].trace, Len(builder[t].trace) + 1, Len(builder'[t].trace))

\* the places of the calls of callback cb in a sequence of calls
CallsOf(calls, cb) == { k \in 1..Len(calls) : calls[k].cb = cb }

\* C29: the pass over the opener of a named section calls
\* mustache_on_section_test once, first, for that opener, with callable 1
\* for a plain and 0 for an inverted section, and then at most one
\* mustache_on_section_start, for iteration 0; no other pass calls the test,
\* so it is called once per entry and not per iteration; a later iteration
\* is one mustache_on_section_start with its index, for named sections only;
\* a SECTION_GOTO and the injected SECTION_START of a template call neither.
SectionTestedOncePerEntry ==
    [][ \A t \in Threads :
          ( /\ builder[t].st = "run"
            /\ builder[t].pos < Len(mustache.i)
            /\ builder'[t] # builder[t] ) =>
              LET b      == builder[t]
                  inst   == mustache.i[b.pos + 1]
                  op     == inst.instruction
                  added  == AddedCalls(t)
                  tests  == CallsOf(added, "mustache_on_section_test")
                  starts == CallsOf(added, "mustache_on_section_start")
                  named  == /\ op \in {"SECTION_START", "SECTION_START_INV"}
                            /\ inst.name_pos # 0
              IN  /\ (named /\ ~TooDeep(b)) =>
                        /\ tests = {1}
                        /\ added[1].pos = b.pos
                        /\ added[1].name_pos = inst.name_pos
                        /\ added[1].x = (IF op = "SECTION_START" THEN 1 ELSE 0)
                        /\ starts \subseteq {2}
                        /\ starts = {2} => added[2].x = 0
                  /\ ~(named /\ ~TooDeep(b)) => tests = {}
                  /\ ( \/ op = "SECTION_GOTO"
                       \/ op = "SECTION_START" /\ inst.name_pos = 0 ) =>
                        starts = {}
                  /\ op = "SECTION_END" =>
                        /\ starts \subseteq {1}
                        /\ starts = {1} =>
                              /\ mustache.i[StackAt(b, b.index).start + 1].name_pos # 0
                              /\ ~GotoFrame(mustache, StackAt(b, b.index))
                              /\ added[1].x = StackAt(b, b.index).index
                              /\ added[1].x >= 1
      ]_vars

\* a build returned 0 after a named section made two iterations: one test,
\* two starts
SectionTestedOncePerEntryWitness ==
    /\ args = VirtualRoot(<<"{", "{", "#", "a", "}", "}", "x", "{", "{", "/", "a", "}", "}",
                            "{", "{", ">", "p", "}", "}", "{", "{", ">", "p", "}", "}">>)
    /\ builder[1].st = "ok"
    /\ Cardinality(CallsOf(builder[1].trace, "mustache_on_section_test")) = 1
    /\ Cardinality(CallsOf(builder[1].trace, "mustache_on_section_start")) = 2

\* C30: mustache_load returns NULL exactly when the error it reports is not
\* MUSTACHE_OK: a failed load has no image and a code other than MUSTACHE_OK,
\* a returned image comes with MUSTACHE_OK, and a step of the load that sets
\* a code other than MUSTACHE_OK ends the load with NULL.
LoadErrorIffNull ==
    /\ [] ( pc = "failed" =>
              /\ mustache = NullImage
              /\ loader.err \notin {"unset", "MUSTACHE_OK"} )
    /\ [] ( pc = "loaded" =>
              /\ ~mustache.null
              /\ loader.err = "MUSTACHE_OK" )
    /\ [][ ( /\ loader'.err # loader.err
             /\ loader'.err \notin {"unset", "MUSTACHE_OK"} ) =>
               /\ pc' = "failed"
               /\ mustache' = NullImage
         ]_vars

(***************************************************************************)
(* Closers and the template that holds them.                               *)
(***************************************************************************)
\* root templates with a closer in a partial that opened nothing, after a
\* partial that closed its own section, and with no section open at all
CloseTemplates ==
    { <<"{", "{", "#", "a", "}", "}", "{", "{", ">", "c", "}", "}", "{", "{",
        "/", "a", "}", "}">>,
      <<"{", "{", "#", "a", "}", "}", "{", "{", ">", "n", "}", "}", "{", "{",
        "/", "a", "}", "}">>,
      <<"{", "{", "#", "}", "}", "{", "{", ">", "n", "}", "}">>,
      <<"{", "{", "#", "a", "}", "}", "{", "{", ">", "k", "}", "}", "{", "{",
        "/", "a", "}", "}">>,
      <<"{", "{", "#", "a", "}", "}", "{", "{", ">", "j", "}", "}", "{", "{",
        "/", "a", "}", "}", "{", "{", "#", "b", "}", "}", "{", "{", ">", "c",
        "}", "}">>,
      <<"{", "{", "#", "a", "}", "}", "{", "{", ">", "j", "}", "}", "{", "{",
        ">", "j", "}", "}", "{", "{", "/", "a", "}", "}">>,
      <<"{", "{", ">", "j", "}", "}", "{", "{", "/", "a", "}", "}">>,
      <<"{", "{", "/", "a", "}", "}">>,
      <<"x", "{", "{", "/", "}", "}">>,
      <<"{", "{", "#", "a", "}", "}", "{", "{", "/", "a", "}", "}", "{", "{",
        "/", "a", "}", "}">> }

CloseArgs ==
    { VirtualRoot(cs) : cs \in CloseTemplates }
    \cup { FileRoot(<<"k">>), FileRoot(<<"j">>), FileRoot(<<"n">>) }

InitClose ==
    /\ args \in CloseArgs
    /\ pc = "start"
    /\ loader = LoaderInit("unset")
    /\ mustache = NullImage
    /\ builder = [t \in Threads |-> Idle]

\* the load and build of these templates
SpecClose == InitClose /\ [][Next]_vars

\* whether instruction k (1 based) of the loader stands for a tag in the text
\* of the template on top of the parse stack
InTopTemplate(s, k) ==
    /\ s.i[k].name_pos > Top(s).data_start
    /\ s.i[k].name_pos < Top(s).data_end

\* C31: a closer met while the template being parsed has no section open
\* fails the load with MUSTACHE_ERR_CLOSURE_MISMATCH, whatever the templates
\* that include it have open, and the only instruction a closer changes is a
\* section opener that was not closed yet and that stands for a tag of the
\* template being parsed, never a loader-injected one or one of another
\* template.
ClosedWhereOpened ==
    [][ (pc = "parse" /\ AtTag(loader, 47)) =>
          /\ Top(loader).open_sections = 0 =>
                LoadFails("MUSTACHE_ERR_CLOSURE_MISMATCH")
          /\ \A k \in 1..Len(loader.i) :
                loader'.i[k] # loader.i[k] =>
                   /\ Top(loader).open_sections > 0
                   /\ loader.i[k].instruction
                        \in {"SECTION_START", "SECTION_START_INV"}
                   /\ loader.i[k].end = 0
                   /\ InTopTemplate(loader, k) ]_vars

\* C31's case: the load failed at a closer of a partial that had no section
\* open while the template including it had one, after an earlier closer had
\* been matched to its opener across the instructions of another partial
ClosedWhereOpenedWitness ==
    /\ pc = "failed"
    /\ loader.err = "MUSTACHE_ERR_CLOSURE_MISMATCH"
    /\ loader.index >= 2
    /\ Top(loader).open_sections = 0
    /\ loader.stack[loader.index - 1].open_sections > 0
    /\ Slice(loader.data, Top(loader).data_pos - 6, 3) = <<123, 123, 47>>
    /\ \E p, r \in Openers(loader.i) :
          /\ loader.i[p + 1].name_pos # 0
          /\ loader.i[r + 1].name_pos = 0
          /\ p < r
          /\ r < loader.i[p + 1].end

\* a closer with the empty name, met in a partial that has no section open
EmptyCloserInPartial ==
    /\ pc = "parse"
    /\ loader.index >= 2
    /\ Top(loader).open_sections = 0
    /\ AtTag(loader, 47)
    /\ NextName(loader) = << >>

(***************************************************************************)
(* The return values of the callbacks.                                     *)
(***************************************************************************)
\* whether the call e of a rendering callback asks for the build to stop:
\* -1 from the two section callbacks, any value but 0 from the other two
Aborting(e) ==
    \/ /\ e.cb \in {"mustache_on_section_test", "mustache_on_section_start"}
       /\ e.ret = -1
    \/ /\ e.cb \in {"mustache_on_text", "mustache_on_arg"}
       /\ e.ret # 0

\* C32: a pass of mustache_build fails with MUSTACHE_ERR_USER_ERROR exactly
\* when a callback it made returned -1 from mustache_on_section_test or
\* mustache_on_section_start, or a value other than 0 from mustache_on_text
\* or mustache_on_arg; that call is the last rendering callback of the build,
\* and after a pass whose callbacks returned anything else the build is still
\* running.
AbortPerCallback ==
    [][ \A t \in Threads :
          ( /\ builder[t].st = "run"
            /\ builder'[t] # builder[t] ) =>
              LET added == AddedCalls(t)
                  host  == { k \in 1..Len(added) : added[k].cb \in HostCallbacks }
                  stops == { k \in host : Aborting(added[k]) }
                  b1    == builder'[t]
              IN  /\ stops # {} <=>
                        /\ b1.st = "fail"
                        /\ b1.err = "MUSTACHE_ERR_USER_ERROR"
                  /\ \A k \in stops :
                        /\ \A j \in host : j <= k
                        /\ b1.ret = -1
                  /\ (host # {} /\ stops = {}) => b1.st = "run"
      ]_vars

\* C32's case: mustache_on_section_test returned 2 and mustache_on_section_start
\* returned 1, the build went on, and mustache_on_text then returned 1 and the
\* build failed with MUSTACHE_ERR_USER_ERROR
AbortPerCallbackWitness ==
    LET b  == builder[1]
        tr == b.trace
        n  == Len(tr)
    IN  /\ b.st = "fail"
        /\ b.err = "MUSTACHE_ERR_USER_ERROR"
        /\ n = 4
        /\ tr[1].cb = "mustache_on_section_test" /\ tr[1].ret = 2
        /\ tr[2].cb = "mustache_on_section_start" /\ tr[2].ret = 1
        /\ tr[3].cb = "mustache_on_text" /\ tr[3].ret = 1
        /\ tr[4].cb = "mustache_on_formatting_error"

\* a build that went on after mustache_on_section_test returned -2
GoesOnAfterMinusTwo ==
    \E k \in 1..Len(builder[1].trace) :
        /\ builder[1].trace[k].cb = "mustache_on_section_test"
        /\ builder[1].trace[k].ret = -2
        /\ k < Len(builder[1].trace)
        /\ builder[1].trace[k + 1].cb # "mustache_on_formatting_error"

(***************************************************************************)
(* mustache_section_text alone, called by a host with any two arguments.   *)
(* Here args is the call: whether section and p_len are NULL, the value    *)
(* the host's length variable holds before the call, and the instruction   *)
(* the builder is at; mustache is what came of the call.                   *)
(***************************************************************************)
TextOps ==
    { "WRITE_TEXT", "WRITE_ARG", "WRITE_ARG_UNESCAPED", "SECTION_START",
      "SECTION_START_INV", "SECTION_END", "SECTION_GOTO" }

\* the instruction at s->pos: a loader-injected one, and named ones with an
\* empty and a non-empty section text
TextInstructions ==
    { Instruction(op, d[1], d[2], d[3], 1, d[4]) :
        op \in TextOps,
        d \in { << 0, 0, 0, 0 >>, << 3, 0, 19, 3 >>, << 4, 2, 19, 3 >> } }

TextArgs ==
    { [ section_null |-> sn, p_len_null |-> pn, len |-> n, inst |-> inst ] :
        sn \in BOOLEAN, pn \in BOOLEAN, n \in {0, 9},
        inst \in TextInstructions }

\* what a call can come to: ptr is the pointer returned, -1 for NULL, len the
\* host's length variable after the call, fault whether the call ended in a
\* store through a NULL pointer that the platform trapped
TextOutcome(ptr, len, fault) == [ptr |-> ptr, len |-> len, fault |-> fault]

\* mustache_section_text(section, p_len).  The label error stores 0 through
\* p_len whatever p_len is; with p_len NULL that store is undefined: it
\* traps, or it is not seen and NULL is returned.
SectionTextOutcomes(a) ==
    LET found == mustache_section_text([i |-> << a.inst >>], 0, << >>, 0)
    IN  IF a.section_null \/ a.p_len_null
        THEN IF a.p_len_null
             THEN { TextOutcome(-1, a.len, TRUE), TextOutcome(-1, a.len, FALSE) }
             ELSE { TextOutcome(-1, 0, FALSE) }
        ELSE { TextOutcome(found.ptr, found.len, FALSE) }

InitText ==
    /\ args \in TextArgs
    /\ pc = "text"
    /\ loader = LoaderInit("unset")
    /\ mustache = NullImage
    /\ builder = [t \in Threads |-> Idle]

\* the host calls mustache_section_text
SectionTextCall ==
    /\ pc = "text"
    /\ \E out \in SectionTextOutcomes(args) :
          /\ mustache' = out
          /\ pc' = IF out.fault THEN "fault" ELSE "returned"
    /\ UNCHANGED << args, loader, builder >>

NextText == SectionTextCall

SpecText == InitText /\ [][NextText]_vars

\* C33: a call of mustache_section_text with a NULL section or a NULL p_len
\* returns NULL and stores through no NULL pointer, and whenever the call
\* returns NULL and p_len is not NULL the length p_len points to is 0.
SectionTextNullSafe ==
    pc # "text" =>
        /\ (args.section_null \/ args.p_len_null) =>
              /\ pc = "returned"
              /\ mustache.ptr = -1
        /\ (pc = "returned" /\ mustache.ptr = -1 /\ ~args.p_len_null) =>
              mustache.len = 0

\* the part of it about calls whose p_len is not NULL
SectionTextZeroesLength ==
    (pc # "text" /\ ~args.p_len_null) =>
        /\ pc = "returned"
        /\ args.section_null => mustache.ptr = -1
        /\ mustache.ptr = -1 => mustache.len = 0

\* a call with a NULL p_len that ended in the store through it
SectionTextFault ==
    /\ pc = "fault"
    /\ args.p_len_null

====
